---- MODULE Spec2Model ----
(***************************************************************************)
(* Passgage FAQ bot: the /api/ask request pipeline.                        *)
(*   rateLimiter -> validation -> normalizeTurkish -> getEmbeddingWithCache *)
(*   -> searchSimilar -> tiered decision -> response, with the detached    *)
(*   storeCacheEntry and trackQuery writes.                                *)
(* Texts are sequences of one-character strings. Scores and thresholds are *)
(* in hundredths (0.70 is 70). Times are in milliseconds. A character is   *)
(* a string; the Turkish letters are written with a dot: "s." is s-cedilla, *)
(* "S." its capital, "i." dotless i, "c." "g." "o." "u." likewise.          *)
(***************************************************************************)
EXTENDS Integers, Sequences, FiniteSets, TLC

VARIABLES env, now, ticks, started, rlKV, cacheKV, statsKV, dailyKV, recentKV,
          req, tasks, admitLog, embedLog

vars == <<env, now, ticks, started, rlKV, cacheKV, statsKV, dailyKV, recentKV,
          req, tasks, admitLog, embedLog>>

\* ------------------------------------------------------------------ bounds
\* request slots that can be in flight at once
MaxSlots == 2
\* requests started in one behaviour of the handler specification
MaxAskRequests == 2
\* requests started in one behaviour of the rate-limiter specification
MaxRateRequests == 3
\* clock advances in one behaviour
MaxTicks == 3
\* largest RATE_LIMIT_MAX value the environment is configured with
MaxLimit == 2
\* requests started in one behaviour of the auxiliary-store specification
MaxAuxRequests == 2
\* largest TOP_K value the environment is configured with
MaxTopK == 5
\* longest text over the small alphabet that normalizeTurkish is called with
MaxTextLen == 3
\* admin requests of one behaviour
MaxAdminRequests == 3
\* requests of one behaviour with overlapping requests
MaxConcurrentRequests == 3
\* longest comma-separated list in the environment of the middleware specification
MaxListLen == 3
\* requests of one behaviour of the whole /api/ask pipeline
MaxPipelineRequests == 2
\* requests of one behaviour of the pipeline under fairness
MaxLiveRequests == 1
\* overlapping requests of one behaviour with the cache store and a stats record
MaxOverlapRequests == 2
\* trackQuery calls of one behaviour
MaxTrackCalls == 2
\* /api/ask requests of one behaviour that follows the entries of the cache
MaxLifecycleRequests == 2

\* an optional value is a sequence of length 0 (absent, undefined, null) or 1
Absent == <<>>
Some(v) == <<v>>
IsSome(x) == x # <<>>
Get(x) == x[1]

\* ------------------------------------------------------------ text helpers
Spaces == {" ", "\t"}

Capitals ==
  <<"A","B","C","D","E","F","G","H","I","J","K","L","M","N","O","P","Q","R","S","T",
    "U","V","W","X","Y","Z","C.","G.","O.","S.","U.">>
Smalls ==
  <<"a","b","c","d","e","f","g","h","i","j","k","l","m","n","o","p","q","r","s","t",
    "u","v","w","x","y","z","c.","g.","o.","s.","u.">>

\* the lowercase of one character that has a one-character lowercase
Lower(c) ==
  IF \E k \in 1..Len(Capitals) : Capitals[k] = c
  THEN Smalls[CHOOSE k \in 1..Len(Capitals) : Capitals[k] = c]
  ELSE c

\* String.prototype.toLowerCase: "I." (capital dotted I) becomes i followed by the
\* combining dot above, written "^."
RECURSIVE ToLowerCase(_)
ToLowerCase(s) ==
  IF s = <<>> THEN <<>>
  ELSE (IF Head(s) = "I." THEN <<"i", "^.">> ELSE <<Lower(Head(s))>>) \o ToLowerCase(Tail(s))

\* \w of a JavaScript regular expression without the u flag: ASCII only
IsWordChar(c) ==
  c \in {"a","b","c","d","e","f","g","h","i","j","k","l","m","n","o","p","q",
         "r","s","t","u","v","w","x","y","z","0","1","2","3","4","5","6","7",
         "8","9","_",
         "A","B","C","D","E","F","G","H","I","J","K","L","M","N","O","P","Q",
         "R","S","T","U","V","W","X","Y","Z"}

\* the class [a-z c. g. i. o. s. u. 0-9 \s ?] with the i flag
IsKept(c) ==
  \/ IsWordChar(c) /\ c # "_"
  \/ c \in {"c.","g.","i.","o.","s.","u.","?"}
  \/ c \in Spaces

MapSeq(s, F(_)) == [i \in 1..Len(s) |-> F(s[i])]

RECURSIVE TrimLeft(_)
TrimLeft(s) == IF s # <<>> /\ Head(s) \in Spaces THEN TrimLeft(Tail(s)) ELSE s

RECURSIVE TrimRight(_)
TrimRight(s) ==
  IF s # <<>> /\ s[Len(s)] \in Spaces THEN TrimRight(SubSeq(s, 1, Len(s) - 1)) ELSE s

\* String.prototype.trim
Trim(s) == TrimRight(TrimLeft(s))

\* replace(/\s+/g, ' ')
RECURSIVE CollapseSpaces(_)
CollapseSpaces(s) ==
  IF s = <<>> THEN <<>>
  ELSE IF Head(s) \in Spaces
       THEN <<" ">> \o CollapseSpaces(TrimLeft(s))
       ELSE <<Head(s)>> \o CollapseSpaces(Tail(s))

\* replace(/[^a-z c. g. i. o. s. u. 0-9 \s ?]/gi, ' ')
StripSpecial(s) == MapSeq(s, LAMBDA c : IF IsKept(c) THEN c ELSE " ")

\* \b at the gap in front of position p of s
Boundary(s, p) ==
  LET before == p > 1 /\ p - 1 <= Len(s) /\ IsWordChar(s[p - 1])
      after  == p >= 1 /\ p <= Len(s) /\ IsWordChar(s[p])
  IN before # after

\* does /\btypo\b/i match s at position p
MatchesAt(s, p, typo) ==
  /\ p + Len(typo) - 1 <= Len(s)
  /\ Boundary(s, p)
  /\ \A k \in 1..Len(typo) :
        s[p + k - 1] = typo[k] \/ Lower(s[p + k - 1]) = Lower(typo[k])
  /\ Boundary(s, p + Len(typo))

\* s.replace(new RegExp(`\\b${typo}\\b`, 'gi'), correct), scanning from p
RECURSIVE ReplaceFrom(_, _, _, _)
ReplaceFrom(s, p, typo, correct) ==
  IF p > Len(s) THEN <<>>
  ELSE IF MatchesAt(s, p, typo)
       THEN correct \o ReplaceFrom(s, p + Len(typo), typo, correct)
       ELSE <<s[p]>> \o ReplaceFrom(s, p + 1, typo, correct)

\* s.replace(new RegExp(`\\b${typo}\\b`, 'gi'), correct): s itself when nothing matches
Replace(s, typo, correct) ==
  IF \A p \in 1..Len(s) : ~MatchesAt(s, p, typo) THEN s
  ELSE ReplaceFrom(s, 1, typo, correct)

\* mutant of TURKISH_TYPO_MAP: a later entry's replacement is an earlier entry's typo
TypoMapChained ==
  << << <<"s","i","f","r","e">>, <<"s.","i","f","r","e">> >>,
     << <<"u","n","u","t","d","u","m">>, <<"s","i","f","r","e">> >> >>

\* TURKISH_TYPO_MAP, every entry in source order
TURKISH_TYPO_MAP ==
  << << <<"s","i","f","r","e">>,
        <<"s.","i","f","r","e">> >>,
     << <<"s","i","f","r","e","m","i">>,
        <<"s.","i","f","r","e","m","i">> >>,
     << <<"s","i","f","r","e","y","i">>,
        <<"s.","i","f","r","e","y","i">> >>,
     << <<"s","i","f","r","e","n","i">>,
        <<"s.","i","f","r","e","n","i">> >>,
     << <<"g","i","r","i","s">>,
        <<"g","i","r","i","s.">> >>,
     << <<"g","i","r","i","s","i">>,
        <<"g","i","r","i","s.","i">> >>,
     << <<"g","i","r","i","s","e">>,
        <<"g","i","r","i","s.","e">> >>,
     << <<"c","i","k","i","s">>,
        <<"c.","i.","k","i.","s.">> >>,
     << <<"u","n","u","t","t","u","m">>,
        <<"u","n","u","t","t","u","m">> >>,
     << <<"u","n","u","t","d","u","m">>,
        <<"u","n","u","t","t","u","m">> >>,
     << <<"u","n","u","t","d","u","n">>,
        <<"u","n","u","t","t","u","n">> >>,
     << <<"u","n","u","t","m","u","s">>,
        <<"u","n","u","t","m","u","s.">> >>,
     << <<"g","e","l","m","i","y","o">>,
        <<"g","e","l","m","i","y","o","r">> >>,
     << <<"g","e","l","m","i","y","o","r">>,
        <<"g","e","l","m","i","y","o","r">> >>,
     << <<"g","e","l","m","e","d","i">>,
        <<"g","e","l","m","e","d","i">> >>,
     << <<"g","o.","n","d","e","r">>,
        <<"g","o.","n","d","e","r">> >>,
     << <<"g","o","n","d","e","r">>,
        <<"g","o.","n","d","e","r">> >>,
     << <<"o","k","u","t","u","r","k","e","n">>,
        <<"o","k","u","t","u","r","k","e","n">> >>,
     << <<"o","k","u","t","u","n","c","a">>,
        <<"o","k","u","t","u","r","k","e","n">> >>,
     << <<"o","k","u","t","t","u","g.","u","m","d","a">>,
        <<"o","k","u","t","u","r","k","e","n">> >>,
     << <<"o","k","u","t","t","u","g","u","m","d","a">>,
        <<"o","k","u","t","u","r","k","e","n">> >>,
     << <<"d","o","g.","r","u","l","a","m","a">>,
        <<"d","o","g.","r","u","l","a","m","a">> >>,
     << <<"d","o","g","r","u","l","a","m","a">>,
        <<"d","o","g.","r","u","l","a","m","a">> >>,
     << <<"d","o","g.","r","u","l","a","n","a","m","a","d","i.">>,
        <<"d","o","g.","r","u","l","a","n","a","m","a","d","i.">> >>,
     << <<"d","o","g","r","u","l","a","n","a","m","a","d","i">>,
        <<"d","o","g.","r","u","l","a","n","a","m","a","d","i.">> >>,
     << <<"k","o","n","u","m">>,
        <<"k","o","n","u","m">> >>,
     << <<"k","o","n","u","m","u">>,
        <<"k","o","n","u","m","u">> >>,
     << <<"v","a","r","d","i","y","a">>,
        <<"v","a","r","d","i","y","a">> >>,
     << <<"v","a","r","d","i","y","a","m">>,
        <<"v","a","r","d","i","y","a","m">> >>,
     << <<"v","a","r","d","i","y","a","m","i">>,
        <<"v","a","r","d","i","y","a","m","i.">> >>,
     << <<"v","a","r","d","i","y","a","y","i">>,
        <<"v","a","r","d","i","y","a","y","i.">> >>,
     << <<"d","e","g.","i","s.","t","i","r">>,
        <<"d","e","g.","i","s.","t","i","r">> >>,
     << <<"d","e","g","i","s","t","i","r">>,
        <<"d","e","g.","i","s.","t","i","r">> >>,
     << <<"d","e","g.","i","s.","i","k","l","i","k">>,
        <<"d","e","g.","i","s.","i","k","l","i","k">> >>,
     << <<"d","e","g","i","s","i","k","l","i","k">>,
        <<"d","e","g.","i","s.","i","k","l","i","k">> >>,
     << <<"g","u.","n","c","e","l","l","e">>,
        <<"g","u.","n","c","e","l","l","e">> >>,
     << <<"g","u","n","c","e","l","l","e">>,
        <<"g","u.","n","c","e","l","l","e">> >>,
     << <<"h","a","t","a">>,
        <<"h","a","t","a">> >>,
     << <<"h","a","t","a","s","i.">>,
        <<"h","a","t","a","s","i.">> >>,
     << <<"h","a","t","a","s","i">>,
        <<"h","a","t","a","s","i.">> >>,
     << <<"s","o","r","u","n">>,
        <<"s","o","r","u","n">> >>,
     << <<"s","o","r","u","n","u">>,
        <<"s","o","r","u","n","u">> >>,
     << <<"g","e","c.","e","r","s","i","z">>,
        <<"g","e","c.","e","r","s","i","z">> >>,
     << <<"g","e","c","e","r","s","i","z">>,
        <<"g","e","c.","e","r","s","i","z">> >>,
     << <<"k","u","l","l","a","n","i.","c","i.">>,
        <<"k","u","l","l","a","n","i.","c","i.">> >>,
     << <<"k","u","l","l","a","n","i","c","i">>,
        <<"k","u","l","l","a","n","i.","c","i.">> >>,
     << <<"b","u","l","u","n","m","a","d","i.">>,
        <<"b","u","l","u","n","m","a","d","i.">> >>,
     << <<"b","u","l","u","n","m","a","d","i">>,
        <<"b","u","l","u","n","m","a","d","i.">> >>,
     << <<"b","u","l","u","n","a","m","a","d","i.">>,
        <<"b","u","l","u","n","a","m","a","d","i.">> >>,
     << <<"b","u","l","u","n","a","m","a","d","i">>,
        <<"b","u","l","u","n","a","m","a","d","i.">> >>,
     << <<"b","u","l","a","m","i.","y","o","r","u","m">>,
        <<"b","u","l","a","m","i.","y","o","r","u","m">> >>,
     << <<"b","u","l","a","m","i","y","o","r","u","m">>,
        <<"b","u","l","a","m","i.","y","o","r","u","m">> >>,
     << <<"g","o.","r","e","m","i","y","o","r","u","m">>,
        <<"g","o.","r","e","m","i","y","o","r","u","m">> >>,
     << <<"g","o","r","e","m","i","y","o","r","u","m">>,
        <<"g","o.","r","e","m","i","y","o","r","u","m">> >>,
     << <<"g","o.","r","u.","n","t","u.","l","e">>,
        <<"g","o.","r","u.","n","t","u.","l","e">> >>,
     << <<"g","o","r","u","n","t","e">>,
        <<"g","o.","r","u.","n","t","u.","l","e">> >>,
     << <<"y","a","p","a","m","i.","y","o","r","u","m">>,
        <<"y","a","p","a","m","i.","y","o","r","u","m">> >>,
     << <<"y","a","p","a","m","i","y","o","r","u","m">>,
        <<"y","a","p","a","m","i.","y","o","r","u","m">> >>,
     << <<"n","a","p","c","a","m">>,
        <<"n","e"," ","y","a","p","a","c","a","g.","i.","m">> >>,
     << <<"n","a","p","c","a","z">>,
        <<"n","e"," ","y","a","p","a","c","a","g.","i.","z">> >>,
     << <<"a","c.","i.","l","m","i.","y","o","r">>,
        <<"a","c.","i.","l","m","i.","y","o","r">> >>,
     << <<"a","c","i","l","m","i","y","o","r">>,
        <<"a","c.","i.","l","m","i.","y","o","r">> >>,
     << <<"c.","a","l","i.","s.","m","i.","y","o","r">>,
        <<"c.","a","l","i.","s.","m","i.","y","o","r">> >>,
     << <<"c","a","l","i","s","m","i","y","o","r">>,
        <<"c.","a","l","i.","s.","m","i.","y","o","r">> >>,
     << <<"c.","a","l","i.","s.","i.","y","o","r">>,
        <<"c.","a","l","i.","s.","i.","y","o","r">> >>,
     << <<"c","a","l","i","s","i","y","o","r">>,
        <<"c.","a","l","i.","s.","i.","y","o","r">> >>,
     << <<"s","o","s","y","a","l"," ","m","e","d","y","a">>,
        <<"s","o","s","y","a","l"," ","m","e","d","y","a">> >>,
     << <<"b","u","r","a","d","a","y","i.","m">>,
        <<"b","u","r","a","d","a","y","i.","m">> >>,
     << <<"b","u","r","a","d","a","y","i","m">>,
        <<"b","u","r","a","d","a","y","i.","m">> >>,
     << <<"i","c.","i","n">>,
        <<"i","c.","i","n">> >>,
     << <<"i","c","i","n">>,
        <<"i","c.","i","n">> >>,
     << <<"n","a","s","i.","l">>,
        <<"n","a","s","i.","l">> >>,
     << <<"n","a","s","i","l">>,
        <<"n","a","s","i.","l">> >>,
     << <<"n","e","d","e","n">>,
        <<"n","e","d","e","n">> >>,
     << <<"n","i","c.","i","n">>,
        <<"n","i","c.","i","n">> >>,
     << <<"n","i","c","i","n">>,
        <<"n","i","c.","i","n">> >>,
     << <<"n","i","y","e">>,
        <<"n","i","y","e">> >> >>

\* the for loop over Object.entries(TURKISH_TYPO_MAP) for the entries first..last in
\* order: the first half of them, then the rest on the text the first half left
RECURSIVE ApplyTypos(_, _, _)
ApplyTypos(s, first, last) ==
  IF first > last THEN s
  ELSE IF first = last
  THEN Replace(s, TURKISH_TYPO_MAP[first][1], TURKISH_TYPO_MAP[first][2])
  ELSE LET mid == (first + last) \div 2
       IN CHOOSE out \in {ApplyTypos(replaced, mid + 1, last) :
                            replaced \in {ApplyTypos(s, first, mid)}} : TRUE

\* JavaScript values a request body can carry as its question
Undefined == [t |-> "undefined"]
Null == [t |-> "null"]
Str(s) == [t |-> "string", v |-> s]
Num(n) == [t |-> "number", n |-> n]

\* !x for the values above
Falsy(x) ==
  \/ x.t \in {"undefined", "null"}
  \/ x.t = "string" /\ x.v = <<>>
  \/ x.t = "number" /\ x.n = 0

\* mutant of normalizeTurkish: step 5 does not trim
normalizeTurkishUntrimmed(text) ==
  IF Falsy(text) \/ text.t # "string" THEN <<>>
  ELSE CHOOSE out \in
         {CollapseSpaces(s4) :
            s4 \in {ApplyTypos(s3, 1, Len(TURKISH_TYPO_MAP)) :
              s3 \in {StripSpecial(s2) :
                s2 \in {CollapseSpaces(s1) :
                  s1 \in {Trim(lower) : lower \in {ToLowerCase(text.v)}}}}}} : TRUE

\* takes a JavaScript value, returns a text; each step works on the text the step
\* before it returned (s1: lower case and trim, s2: spaces, s3: special characters,
\* s4: typo table, then spaces and trim)
normalizeTurkish(text) ==
  IF Falsy(text) \/ text.t # "string" THEN <<>>
  ELSE CHOOSE out \in
         {Trim(CollapseSpaces(s4)) :
            s4 \in {ApplyTypos(s3, 1, Len(TURKISH_TYPO_MAP)) :
              s3 \in {StripSpecial(s2) :
                s2 \in {CollapseSpaces(s1) :
                  s1 \in {Trim(lower) : lower \in {ToLowerCase(text.v)}}}}}} : TRUE

\* String.prototype.charCodeAt for the characters of the model's alphabet
CharCode(c) ==
  CASE c = " " -> 32 [] c = "!" -> 33 [] c = "?" -> 63 [] c = "\t" -> 9
    [] c = "a" -> 97 [] c = "d" -> 100 [] c = "e" -> 101 [] c = "f" -> 102
    [] c = "i" -> 105 [] c = "m" -> 109 [] c = "n" -> 110 [] c = "r" -> 114
    [] c = "s" -> 115 [] c = "t" -> 116 [] c = "u" -> 117
    [] c = "S" -> 83 [] c = "I" -> 73 [] c = "U" -> 85 [] c = "N" -> 78
    [] c = "s." -> 351 [] c = "S." -> 350 [] c = "i." -> 305 [] c = "c." -> 231
    [] c = "g." -> 287 [] c = "o." -> 246 [] c = "u." -> 252
    [] OTHER -> 120

Half == 65536

\* one round of hashString's loop on the 32-bit hash <<high half, low half>>:
\* hash = (hash << 5) - hash + char; hash = hash & hash
HashStep(h, c) ==
  LET lo == 31 * h[2] + CharCode(c)
      hi == 31 * h[1] + (lo \div Half)
  IN <<hi % Half, lo % Half>>

RECURSIVE HashFrom(_, _, _)
HashFrom(h, text, i) ==
  IF i > Len(text) THEN h
  ELSE CHOOSE out \in {HashFrom(step, text, i + 1) : step \in {HashStep(h, text[i])}} : TRUE

\* Math.abs of the signed 32-bit value of h, as <<high half, low half>>
AbsHash(h) ==
  IF h[1] < Half \div 2 THEN h
  ELSE IF h[2] = 0 THEN <<Half - h[1], 0>>
       ELSE <<Half - 1 - h[1], Half - h[2]>>

\* hashString: the number whose base-36 digits the code returns
hashString(text) == AbsHash(HashFrom(<<0, 0>>, text, 1))

\* question.substring(0, n)
Substring0(text, n) == SubSeq(text, 1, IF Len(text) < n THEN Len(text) ELSE n)

KeyPrefixLen == 20

\* `emb:${hashString(question)}:${question.substring(0, 20)}`
CacheKeyOf(question) == <<"emb", hashString(question), Substring0(question, KeyPrefixLen)>>

\* ------------------------------------------------------- key-value stores
\* A namespace maps a key to [v |-> value, at |-> time of the put, ttl |-> its
\* expirationTtl in seconds]; a get at or after at + ttl * 1000 finds nothing.
Live(e, t) == (t - e.at) \div 1000 < e.ttl

KVRead(kv, k, t) == IF k \in DOMAIN kv /\ Live(kv[k], t) THEN Some(kv[k].v) ELSE Absent

\* mutant of KVWrite: the put replaces the namespace by the one record
KVWriteAlone(kv, k, value, ttl, t) ==
  [x \in {k} |-> [v |-> value, at |-> t, ttl |-> ttl]]

KVWrite(kv, k, value, ttl, t) ==
  [x \in DOMAIN kv \cup {k} |-> IF x = k THEN [v |-> value, at |-> t, ttl |-> ttl] ELSE kv[x]]

EmptyKV == [x \in {} |-> Absent]

KVDelete(kv, k) == [x \in DOMAIN kv \ {k} |-> kv[x]]

\* mutant of KVList: the list holds one key at most
KVListOne(kv, t) ==
  LET all == {k \in DOMAIN kv : Live(kv[k], t)}
  IN IF all = {} THEN {} ELSE {CHOOSE k \in all : TRUE}

\* the keys list({prefix}) returns in a namespace that holds keys of one prefix
KVList(kv, t) == {k \in DOMAIN kv : Live(kv[k], t)}

\* a set of keys as the array list.keys
RECURSIVE KeyArray(_)
KeyArray(ks) ==
  IF ks = {} THEN <<>>
  ELSE LET k == CHOOSE x \in ks : TRUE IN <<k>> \o KeyArray(ks \ {k})

\* Math.ceil(a / b) for a >= 0, b > 0
CeilDiv(a, b) == (a + b - 1) \div b

\* ------------------------------------------------------------ environment
windowMs == 60000
DefaultRateLimitMax == 60
DefaultSimilarityThreshold == 70
DefaultFuzzyThreshold == 60
DefaultTopK == 3
CacheTtl == 604800
StatsTtl == 2592000
MetricsTtl == 2592000
RecentTtl == 604800
RecentMax == 100
DayMs == 86400000

\* parseInt(c.env.RATE_LIMIT_MAX || '60')
maxRequests(e) == IF IsSome(e.RATE_LIMIT_MAX) THEN Get(e.RATE_LIMIT_MAX) ELSE DefaultRateLimitMax

\* parseFloat(c.env.SIMILARITY_THRESHOLD || '0.7')
primaryThreshold(e) ==
  IF IsSome(e.SIMILARITY_THRESHOLD) THEN Get(e.SIMILARITY_THRESHOLD)
  ELSE DefaultSimilarityThreshold

\* parseFloat(c.env.FUZZY_THRESHOLD || '0.6')
fuzzyThreshold(e) ==
  IF IsSome(e.FUZZY_THRESHOLD) THEN Get(e.FUZZY_THRESHOLD) ELSE DefaultFuzzyThreshold

\* parseInt(c.env.TOP_K || '3')
topK(e) == IF IsSome(e.TOP_K) THEN Get(e.TOP_K) ELSE DefaultTopK

\* ---------------------------------------------------------- vector index
Scores == {30, 60, 65, 70, 82}
LowScore == CHOOSE s \in Scores : \A t \in Scores : s <= t

\* one match of VECTORIZE.query: the i-th stored FAQ with its metadata
Match(i, s) ==
  [id |-> i, score |-> s,
   metadata |-> [question |-> <<"question", i>>, answer |-> <<"answer", i>>,
                 category |-> IF i = 1 THEN Some("giris") ELSE Absent]]

\* what the index answers for topK = k: at most k matches, scores descending
IndexAnswers(k) ==
  {<<>>} \cup
  { [i \in 1..n |-> Match(i, IF i = 1 THEN s ELSE LowScore)] :
      n \in 1..k, s \in Scores }

\* searchSimilar's map of a match to a SearchResult
ToSearchResult(m) ==
  [faq |-> [id |-> m.id,
            question |-> m.metadata.question,
            answer |-> m.metadata.answer,
            category |-> IF IsSome(m.metadata.category) THEN Get(m.metadata.category)
                         ELSE "general"],
   score |-> m.score]

ToSuggestion(r) == [question |-> r.faq.question, id |-> r.faq.id, category |-> r.faq.category]

\* Array.prototype.slice(a, b) with 0-based bounds, b exclusive
Slice(s, a, b) ==
  LET hi == IF b < Len(s) THEN b ELSE Len(s)
  IN IF a >= hi THEN <<>> ELSE [i \in 1..(hi - a) |-> s[a + i]]

\* ------------------------------------------------------------- responses
ValidationError == [status |-> 400, success |-> FALSE, message |-> "Soru metni bos olamaz."]
InternalError == [status |-> 500, success |-> FALSE, message |-> "Bir hata olustu."]
\* the framework's answer to an exception no handler caught
Unhandled == [status |-> 500, text |-> "Internal Server Error"]
RateLimited(retryAfter) ==
  [status |-> 429, success |-> FALSE, error |-> "Rate limit exceeded", retryAfter |-> retryAfter]

\* app.delete('/api/cache'): message is `${cleared} cache entry deleted successfully`
ClearResponse(cleared) == [status |-> 200, success |-> TRUE, cleared |-> cleared]

StatsDisabled ==
  [status |-> 200, enabled |-> FALSE, message |-> "Cache KV namespace not configured"]

\* (stats.hitRate * 100).toFixed(2) of the fraction <<hits, total>>, as the number of
\* hundredths of a percent, rounded to the nearest
ToFixed2(hitRate) == (2 * 10000 * hitRate[1] + hitRate[2]) \div (2 * hitRate[2])

StatsResponse(stats, size) ==
  [status |-> 200, enabled |-> TRUE,
   stats |-> [totalQueries |-> stats.totalQueries, cacheHits |-> stats.cacheHits,
              cacheMisses |-> stats.cacheMisses, hitRate |-> ToFixed2(stats.hitRate),
              cacheSize |-> size, lastReset |-> stats.lastReset]]

NoResponse == [status |-> 0]

Has(rec, f) == f \in DOMAIN rec

\* ------------------------------------------------------ decision engine
NoMatchMessage == "Sorunuzla eslesen bir cevap bulunamadi."

\* QueryMetrics handed to trackQuery
Metric(t, question, success, confidence, cached, fuzzy, start, category) ==
  [timestamp |-> t, question |-> question, success |-> success,
   confidence |-> confidence, cached |-> cached, fuzzy |-> fuzzy,
   responseTimeMs |-> t - start, category |-> category]

\* if (results.length === 0): the response and the metric
NoResults(question, cached, t, start) ==
  [resp |-> [status |-> 200, success |-> FALSE, message |-> NoMatchMessage,
             suggestions |-> <<>>],
   metric |-> Metric(t, question, FALSE, Absent, cached, FALSE, start, Absent)]

\* if (bestScore >= primaryThreshold)
DirectAnswer(results, question, cached, t, start) ==
  LET bestMatch == results[1]
  IN [resp |-> [status |-> 200, success |-> TRUE,
                answer |-> bestMatch.faq.answer,
                confidence |-> bestMatch.score,
                matchedQuestion |-> bestMatch.faq.question,
                category |-> bestMatch.faq.category,
                suggestions |-> MapSeq(Slice(results, 1, Len(results)), ToSuggestion)],
      metric |-> Metric(t, question, TRUE, Some(bestMatch.score), cached, FALSE, start,
                        Some(bestMatch.faq.category))]

\* mutant of FuzzyAnswer: every result after the first is an alternate
FuzzyAnswerAllRest(results, question, cached, t, start) ==
  LET bestMatch == results[1]
  IN [resp |-> [status |-> 200, success |-> FALSE, fuzzy |-> TRUE,
                confidence |-> bestMatch.score,
                suggestedQuestion |-> bestMatch.faq.question,
                answer |-> bestMatch.faq.answer,
                category |-> bestMatch.faq.category,
                message |-> <<"Sunu mu demek istediniz", bestMatch.faq.question>>,
                suggestions |-> MapSeq(Slice(results, 1, Len(results)), ToSuggestion)],
      metric |-> Metric(t, question, FALSE, Some(bestMatch.score), cached, TRUE, start,
                        Some(bestMatch.faq.category))]

\* mutant of FuzzyAnswer: the suggestion is answered with success = true
FuzzyAnswerSuccess(results, question, cached, t, start) ==
  LET bestMatch == results[1]
  IN [resp |-> [status |-> 200, success |-> TRUE, fuzzy |-> TRUE,
                confidence |-> bestMatch.score,
                suggestedQuestion |-> bestMatch.faq.question,
                answer |-> bestMatch.faq.answer,
                category |-> bestMatch.faq.category,
                message |-> <<"Sunu mu demek istediniz", bestMatch.faq.question>>,
                suggestions |-> MapSeq(Slice(results, 1, 3), ToSuggestion)],
      metric |-> Metric(t, question, FALSE, Some(bestMatch.score), cached, TRUE, start,
                        Some(bestMatch.faq.category))]

\* mutant of FuzzyAnswer: the metric is not flagged fuzzy
FuzzyAnswerUnflagged(results, question, cached, t, start) ==
  LET bestMatch == results[1]
  IN [resp |-> [status |-> 200, success |-> FALSE, fuzzy |-> TRUE,
                confidence |-> bestMatch.score,
                suggestedQuestion |-> bestMatch.faq.question,
                answer |-> bestMatch.faq.answer,
                category |-> bestMatch.faq.category,
                message |-> <<"Sunu mu demek istediniz", bestMatch.faq.question>>,
                suggestions |-> MapSeq(Slice(results, 1, 3), ToSuggestion)],
      metric |-> Metric(t, question, FALSE, Some(bestMatch.score), cached, FALSE, start,
                        Some(bestMatch.faq.category))]

\* if (bestScore >= fuzzyThreshold)
FuzzyAnswer(results, question, cached, t, start) ==
  LET bestMatch == results[1]
  IN [resp |-> [status |-> 200, success |-> FALSE, fuzzy |-> TRUE,
                confidence |-> bestMatch.score,
                suggestedQuestion |-> bestMatch.faq.question,
                answer |-> bestMatch.faq.answer,
                category |-> bestMatch.faq.category,
                message |-> <<"Sunu mu demek istediniz", bestMatch.faq.question>>,
                suggestions |-> MapSeq(Slice(results, 1, 3), ToSuggestion)],
      metric |-> Metric(t, question, FALSE, Some(bestMatch.score), cached, TRUE, start,
                        Some(bestMatch.faq.category))]

\* score too low
NoMatchAnswer(results, question, cached, t, start) ==
  [resp |-> [status |-> 200, success |-> FALSE, message |-> NoMatchMessage,
             suggestions |-> MapSeq(Slice(results, 0, 3), ToSuggestion)],
   metric |-> Metric(t, question, FALSE, Some(results[1].score), cached, FALSE, start, Absent)]

\* mutant of MeetsPrimary: a strict comparison
MeetsPrimaryStrict(bestScore, e) == bestScore > primaryThreshold(e)

\* bestScore >= primaryThreshold
MeetsPrimary(bestScore, e) == bestScore >= primaryThreshold(e)

\* mutant of MeetsFuzzy: a score one hundredth under the threshold passes
MeetsFuzzyNear(bestScore, e) == bestScore >= fuzzyThreshold(e) - 1

\* bestScore >= fuzzyThreshold
MeetsFuzzy(bestScore, e) == bestScore >= fuzzyThreshold(e)

\* the handler from the search results to its response and its trackQuery argument
AskOutcome(results, question, cached, t, start, e) ==
  IF Len(results) = 0 THEN NoResults(question, cached, t, start)
  ELSE IF MeetsPrimary(results[1].score, e)
       THEN DirectAnswer(results, question, cached, t, start)
  ELSE IF MeetsFuzzy(results[1].score, e)
       THEN FuzzyAnswer(results, question, cached, t, start)
  ELSE NoMatchAnswer(results, question, cached, t, start)

\* ---------------------------------------------------------------- requests
Slots == 1..MaxSlots

\* the body's question when the body is not JSON
BadJson == [t |-> "badjson"]

\* one request: where it is suspended (pc), what it holds, what it has called
IdleReq ==
  [pc |-> "idle", ip |-> "", question |-> Undefined, rlNow |-> 0,
   rlReadAt |-> 0, rlFault |-> "none", rlWrite |-> Absent, handlerRan |-> FALSE, startTime |-> 0,
   normalized |-> <<>>, cacheKey |-> Absent, entry |-> Absent, embedding |-> Absent,
   isHit |-> FALSE,
   statsWrite |-> Absent, nNormalize |-> 0, nCacheGet |-> 0, nEmbed |-> 0,
   nSearch |-> 0, tracked |-> <<>>, storeFault |-> FALSE, lookup |-> "none",
   provider |-> Absent, results |-> Absent, keys |-> <<>>, cleared |-> 0,
   stats |-> Absent, seq |-> 0, mw |-> "none", apiKey |-> Absent, origin |-> Absent,
   method |-> "POST", ipHeader |-> Absent, headers |-> EmptyKV, nNext |-> 0,
   overlapped |-> FALSE, statsRaced |-> FALSE, resp |-> NoResponse]


\* mutant of Respond: the response is built but never returned
RespondNever(rec, response) == [rec EXCEPT !.resp = response]

Respond(rec, response) == [rec EXCEPT !.pc = "done", !.resp = response]

\* the catch block of app.post('/api/ask')
CatchAsk(rec) == Respond(rec, InternalError)

\* c.header('CF-Connecting-IP') || 'unknown'
ClientIp(header) == IF header = "" THEN "unknown" ELSE header

\* rateLimiter calls next(): the /api/ask handler starts, startTime = Date.now()
EnterHandler(rec, t) == [rec EXCEPT !.pc = "body", !.handlerRan = TRUE, !.startTime = t]

\* ------------------------------------------------------------ rate limiter
\* admitLog, a history of the limiter's outcomes: the client, the Date.now() the
\* limiter read, the time its get was served, what it did, the window end it used
RlEntry(ip, t, readAt, outcome, resetTime) ==
  [ip |-> ip, now |-> t, readAt |-> readAt, outcome |-> outcome, resetTime |-> resetTime]

\* a request that publicApiKeyAuth has let through arrives at rateLimiter
\* (line 136-145)
Start(r, header, q, max) ==
  /\ req[r].pc \in {"idle", "done"}
  /\ started < max
  /\ started' = started + 1
  /\ LET fresh == [IdleReq EXCEPT !.ip = ClientIp(header), !.question = q, !.rlNow = now]
     IN req' = [req EXCEPT ![r] =
                  IF env.RATE_LIMIT_KV THEN [fresh EXCEPT !.pc = "rl_get"]
                  ELSE EnterHandler([fresh EXCEPT !.rlFault = "nobinding"], now)]
  /\ UNCHANGED <<env, now, ticks, rlKV, cacheKV, statsKV, dailyKV, recentKV, tasks,
                 admitLog, embedLog>>

\* the window record rateLimiter writes for what it read (line 147-188)
RlNextRecord(data, t) ==
  IF IsSome(data) /\ t < Get(data).resetTime
  THEN [count |-> Get(data).count + 1, resetTime |-> Get(data).resetTime,
        ttl |-> CeilDiv(Get(data).resetTime - t, 1000)]
  ELSE [count |-> 1, resetTime |-> t + windowMs, ttl |-> CeilDiv(windowMs, 1000)]

\* mutant of RlDenies: the count is compared with >
RlDeniesLate(data, t, e) ==
  IsSome(data) /\ t < Get(data).resetTime /\ Get(data).count > maxRequests(e)

\* if (now < resetTime) if (count >= maxRequests)
RlDenies(data, t, e) ==
  IsSome(data) /\ t < Get(data).resetTime /\ Get(data).count >= maxRequests(e)

\* retryAfter: Math.ceil((resetTime - now) / 1000)
RetryAfter(resetTime, t) == CeilDiv(resetTime - t, 1000)

\* await RATE_LIMIT_KV.get(rateLimitKey, 'json') settles (line 145-188)
RlGet(r, ok) ==
  /\ req[r].pc = "rl_get"
  /\ LET rec == [req[r] EXCEPT !.rlReadAt = now]
         data == KVRead(rlKV, rec.ip, now)
     IN IF ~ok
        THEN /\ req' = [req EXCEPT ![r] = Respond([rec EXCEPT !.rlFault = "get"], Unhandled)]
             /\ admitLog' = Append(admitLog, RlEntry(rec.ip, rec.rlNow, now, "error", 0))
        ELSE IF RlDenies(data, rec.rlNow, env)
        THEN /\ req' = [req EXCEPT ![r] =
                          Respond(rec, RateLimited(RetryAfter(Get(data).resetTime, rec.rlNow)))]
             /\ admitLog' = Append(admitLog, RlEntry(rec.ip, rec.rlNow, now, "denied",
                                                      Get(data).resetTime))
        ELSE /\ req' = [req EXCEPT ![r] =
                          [rec EXCEPT !.pc = "rl_put",
                                      !.rlWrite = Some(RlNextRecord(data, rec.rlNow))]]
             /\ UNCHANGED admitLog
  /\ UNCHANGED <<env, now, ticks, started, rlKV, cacheKV, statsKV, dailyKV, recentKV,
                 tasks, embedLog>>

\* await RATE_LIMIT_KV.put(...) settles, then await next() (line 168-191)
RlPut(r, ok) ==
  /\ req[r].pc = "rl_put"
  /\ LET rec == req[r]
         w == Get(rec.rlWrite)
     IN IF ~ok
        THEN /\ req' = [req EXCEPT ![r] = Respond([rec EXCEPT !.rlFault = "put"], Unhandled)]
             /\ admitLog' = Append(admitLog,
                                   RlEntry(rec.ip, rec.rlNow, rec.rlReadAt, "error", 0))
             /\ UNCHANGED rlKV
        ELSE /\ rlKV' = KVWrite(rlKV, rec.ip,
                                [count |-> w.count, resetTime |-> w.resetTime], w.ttl, now)
             /\ req' = [req EXCEPT ![r] = EnterHandler(rec, now)]
             /\ admitLog' = Append(admitLog, RlEntry(rec.ip, rec.rlNow, rec.rlReadAt,
                                                      "admitted", w.resetTime))
  /\ UNCHANGED <<env, now, ticks, started, cacheKV, statsKV, dailyKV, recentKV, tasks,
                 embedLog>>

\* ------------------------------------------------------- /api/ask handler
\* what env.AI.run can answer: a rejection, a response without data, a vector of
\* the wrong length, or a 1024-dimensional vector (named, not spelled out)
Vectors == {"v1", "v2"}
ProviderAnswers == {"reject", "nodata", "wrongdims"} \cup Vectors

CacheEntry(embedding, question, t) ==
  [embedding |-> embedding, question |-> question, timestamp |-> t]

\* mutant of StoreTask: the entry is stored under the key without its hash
StoreTaskUnhashed(key, entry) ==
  [kind |-> "store", pc |-> "put", key |-> <<key[1], <<0, 0>>, key[3]>>, entry |-> entry]

StoreTask(key, entry) == [kind |-> "store", pc |-> "put", key |-> key, entry |-> entry]

\* new Date().toISOString().split('T')[0], as the number of the day
Today(t) == t \div DayMs

TrackTask(metric, today) ==
  [kind |-> "track", pc |-> "daily_get", metric |-> metric, today |-> today,
   write |-> Absent]

\* embedLog, a history of the getEmbeddingWithCache calls that returned: the text,
\* whether the cache answered, whether the stats update was stored, and whether
\* the update read the stats record while another call was between its read and its
\* write
EmbedEntry(rec, statsOk) ==
  [question |-> rec.normalized, cached |-> rec.isHit, statsOk |-> statsOk,
   raced |-> rec.statsRaced]

\* mutant of GenerateEmbeddingCall: the index is queried while the provider is asked
GenerateEmbeddingAndSearch(rec) ==
  IF Trim(rec.normalized) = <<>> THEN CatchAsk(rec)
  ELSE [rec EXCEPT !.pc = "embed", !.nEmbed = @ + 1, !.nSearch = @ + 1]

\* generateEmbedding up to env.AI.run: an empty text throws (line 22-30)
GenerateEmbeddingCall(rec) ==
  IF Trim(rec.normalized) = <<>> THEN CatchAsk(rec)
  ELSE [rec EXCEPT !.pc = "embed", !.nEmbed = @ + 1]

\* getEmbeddingWithCache has returned: the handler calls searchSimilar (line 131-142)
CallSearch(rec) == [rec EXCEPT !.pc = "search", !.nSearch = @ + 1]

\* mutant of Validate: the question is not trimmed before the length test
ValidateUntrimmed(q) ==
  IF q.t = "badjson" THEN "throws"
  ELSE IF Falsy(q) THEN "invalid"
  ELSE IF q.t # "string" THEN "throws"
  ELSE "ok"

\* if (!question || question.trim().length === 0) on the parsed body: "invalid" is
\* the 400 answer, "throws" an exception (no JSON, or a question without trim)
Validate(q) ==
  IF q.t = "badjson" THEN "throws"
  ELSE IF Falsy(q) THEN "invalid"
  ELSE IF q.t # "string" THEN "throws"
  ELSE IF Len(Trim(q.v)) = 0 THEN "invalid"
  ELSE "ok"

\* await c.req.json(), the validation, normalizeTurkish and getEmbeddingWithCache up
\* to its first await (index.ts line 113-134, embedding-cache.ts line 36-48)
Body(r) ==
  /\ req[r].pc = "body"
  /\ LET rec == req[r]
         q == rec.question
     IN req' = [req EXCEPT ![r] =
          IF Validate(q) = "throws" THEN CatchAsk(rec)
          ELSE IF Validate(q) = "invalid" THEN Respond(rec, ValidationError)
          ELSE CHOOSE out \in
                 {IF ~env.EMBEDDING_CACHE_KV
                  THEN GenerateEmbeddingCall([n EXCEPT !.lookup = "nokv"])
                  ELSE [n EXCEPT !.pc = "cache_get",
                                 !.cacheKey = Some(CacheKeyOf(n.normalized)),
                                 !.nCacheGet = @ + 1] :
                    n \in {[rec EXCEPT !.normalized = normalizeTurkish(q),
                                       !.nNormalize = @ + 1]}} : TRUE]
  /\ UNCHANGED <<env, now, ticks, started, rlKV, cacheKV, statsKV, dailyKV, recentKV,
                 tasks, admitLog, embedLog>>

\* mutant of OnCacheReadError: the read error reaches the handler
OnCacheReadErrorThrown(rec) == CatchAsk([rec EXCEPT !.lookup = "fault", !.storeFault = TRUE])

\* catch (error) of the cache read: go on and generate (line 59-66)
OnCacheReadError(rec) ==
  GenerateEmbeddingCall([rec EXCEPT !.lookup = "fault", !.storeFault = TRUE])

\* await EMBEDDING_CACHE_KV.get(cacheKey, 'json') settles (line 46-66); on a hit
\* updateCacheStats(env, true) runs up to its get (line 115-121)
CacheGet(r, ok) ==
  /\ req[r].pc = "cache_get"
  /\ LET rec == req[r]
         cached == KVRead(cacheKV, Get(rec.cacheKey), now)
     IN req' = [req EXCEPT ![r] =
          IF ~ok THEN OnCacheReadError(rec)
          ELSE IF IsSome(cached)
          THEN [rec EXCEPT !.lookup = "hit", !.isHit = TRUE, !.pc = "stats_get",
                           !.entry = cached,
                           !.embedding = Some(Get(cached).embedding)]
          ELSE GenerateEmbeddingCall([rec EXCEPT !.lookup = "miss"])]
  /\ UNCHANGED <<env, now, ticks, started, rlKV, cacheKV, statsKV, dailyKV, recentKV,
                 tasks, admitLog, embedLog>>

\* mutant of EmbeddingFails: the answer's data and dimensions are not checked
EmbeddingFailsUnchecked(answer) == answer = "reject"

\* generateEmbedding's checks of the provider's answer (embeddings.ts line 33-56)
EmbeddingFails(answer) == answer \notin Vectors

\* await env.AI.run(...) settles (embeddings.ts line 28-56); with the cache store,
\* storeCacheEntry is dispatched and updateCacheStats(env, false) runs up to its get
\* (embedding-cache.ts line 66-74), without it the handler goes on to searchSimilar
Embed(r, answer) ==
  /\ req[r].pc = "embed"
  /\ LET rec == [req[r] EXCEPT !.provider = Some(answer)]
     IN IF EmbeddingFails(answer)
        THEN /\ req' = [req EXCEPT ![r] = CatchAsk(rec)]
             /\ UNCHANGED <<tasks, embedLog>>
        ELSE IF env.EMBEDDING_CACHE_KV
        THEN /\ req' = [req EXCEPT ![r] =
                          [rec EXCEPT !.embedding = Some(answer), !.pc = "stats_get"]]
             /\ tasks' = Append(tasks, StoreTask(Get(rec.cacheKey),
                                                 CacheEntry(answer, rec.normalized, now)))
             /\ UNCHANGED embedLog
        ELSE /\ req' = [req EXCEPT ![r] = CallSearch([rec EXCEPT !.embedding = Some(answer)])]
             /\ embedLog' = Append(embedLog, EmbedEntry(rec, FALSE))
             /\ UNCHANGED tasks
  /\ UNCHANGED <<env, now, ticks, started, rlKV, cacheKV, statsKV, dailyKV, recentKV,
                 admitLog>>

StatsKey == "cache:stats"

\* mutant of NewStats: the first record starts at one query
NewStatsCounted(t) ==
  [totalQueries |-> 1, cacheHits |-> 0, cacheMisses |-> 0, hitRate |-> <<0, 1>>,
   lastReset |-> t]

\* the record updateCacheStats starts from when there is none (line 124-130)
NewStats(t) ==
  [totalQueries |-> 0, cacheHits |-> 0, cacheMisses |-> 0, hitRate |-> <<0, 1>>,
   lastReset |-> t]

\* mutant of BumpStats: the hit rate is taken before this query is counted
BumpStatsStale(stats, isHit) ==
  LET total == stats.totalQueries + 1
      hits == stats.cacheHits + (IF isHit THEN 1 ELSE 0)
      misses == stats.cacheMisses + (IF isHit THEN 0 ELSE 1)
  IN [stats EXCEPT !.totalQueries = total, !.cacheHits = hits, !.cacheMisses = misses,
                   !.hitRate = <<stats.cacheHits, total>>]

\* updateCacheStats' update (line 133-139); hitRate is the fraction <<hits, total>>
BumpStats(stats, isHit) ==
  LET total == stats.totalQueries + 1
      hits == stats.cacheHits + (IF isHit THEN 1 ELSE 0)
      misses == stats.cacheMisses + (IF isHit THEN 0 ELSE 1)
  IN [stats EXCEPT !.totalQueries = total, !.cacheHits = hits, !.cacheMisses = misses,
                   !.hitRate = <<hits, total>>]

\* mutant of OnStatsError: updateCacheStats lets the error out, into the try block
\* around the cache read on a hit, to the handler on a miss
OnStatsErrorThrown(rec) ==
  IF rec.isHit
  THEN GenerateEmbeddingCall([rec EXCEPT !.storeFault = TRUE, !.isHit = FALSE,
                                         !.statsWrite = Absent])
  ELSE CatchAsk([rec EXCEPT !.storeFault = TRUE])

\* mutant of OnStatsError: the error of a stats update is answered by the handler's
\* catch
OnStatsErrorSurfaced(rec) == CatchAsk([rec EXCEPT !.storeFault = TRUE])

\* catch (error) of updateCacheStats: log and return (line 145-147); then
\* getEmbeddingWithCache returns and the handler calls searchSimilar
OnStatsError(rec) == CallSearch([rec EXCEPT !.storeFault = TRUE, !.statsWrite = Absent])

\* updateCacheStats: await get(statsKey) settles (line 120-142); a failure is caught
StatsGet(r, ok) ==
  /\ req[r].pc = "stats_get"
  /\ LET rec == req[r]
         existing == KVRead(statsKV, StatsKey, now)
         stats == IF IsSome(existing) THEN Get(existing) ELSE NewStats(now)
     IN IF ~ok
        THEN /\ req' = [req EXCEPT ![r] = OnStatsError(rec)]
             /\ embedLog' = Append(embedLog, EmbedEntry(rec, FALSE))
        ELSE /\ req' = [req EXCEPT ![r] =
                          [rec EXCEPT !.pc = "stats_put",
                                      !.statsWrite = Some(BumpStats(stats, rec.isHit)),
                                      !.statsRaced =
                                         \E o \in Slots \ {r} : req[o].pc = "stats_put"]]
             /\ UNCHANGED embedLog
  /\ UNCHANGED <<env, now, ticks, started, rlKV, cacheKV, statsKV, dailyKV, recentKV,
                 tasks, admitLog>>

\* updateCacheStats: await put(statsKey, ...) settles (line 142-147), then
\* getEmbeddingWithCache returns and the handler calls searchSimilar
StatsPut(r, ok) ==
  /\ req[r].pc = "stats_put"
  /\ LET rec == req[r]
     IN /\ statsKV' = IF ok THEN KVWrite(statsKV, StatsKey, Get(rec.statsWrite), StatsTtl, now)
                      ELSE statsKV
        /\ req' = [req EXCEPT ![r] =
                     IF ok THEN CallSearch([rec EXCEPT !.statsWrite = Absent])
                     ELSE OnStatsError(rec)]
        /\ embedLog' = Append(embedLog, EmbedEntry(rec, ok))
  /\ UNCHANGED <<env, now, ticks, started, rlKV, cacheKV, dailyKV, recentKV, tasks,
                 admitLog>>

\* trackQuery up to its first await: without METRICS_KV it returns at once (line 54-61)
TrackQueryCall(metric, t) ==
  IF env.METRICS_KV THEN <<TrackTask(metric, Today(t))>> ELSE <<>>

\* await searchSimilar(...) settles (csvParser.ts line 608-633); the decision, the
\* trackQuery call and the response (index.ts line 145-266)
Search(r, answer) ==
  /\ req[r].pc = "search"
  /\ LET rec == [req[r] EXCEPT !.results = Some(answer)]
     IN IF ~answer.ok
        THEN /\ req' = [req EXCEPT ![r] = CatchAsk(rec)]
             /\ UNCHANGED tasks
        ELSE LET results == MapSeq(answer.matches, ToSearchResult)
                 out == AskOutcome(results, rec.normalized, rec.isHit, now,
                                   rec.startTime, env)
             IN /\ req' = [req EXCEPT ![r] =
                             Respond([rec EXCEPT !.tracked = Append(@, out.metric)],
                                     out.resp)]
                /\ tasks' = tasks \o TrackQueryCall(out.metric, now)
  /\ UNCHANGED <<env, now, ticks, started, rlKV, cacheKV, statsKV, dailyKV, recentKV,
                 admitLog, embedLog>>

\* what VECTORIZE.query can do for this environment: throw, or answer
IndexOutcomes(e) ==
  {[ok |-> FALSE, matches |-> <<>>]} \cup
  {[ok |-> TRUE, matches |-> m] : m \in IndexAnswers(topK(e))}

\* ---------------------------------------------------------- detached writes
RemoveAt(q, i) == SubSeq(q, 1, i - 1) \o SubSeq(q, i + 1, Len(q))

\* storeCacheEntry: await put(key, entry, {expirationTtl: 604800}) settles
\* (line 103-105); the caller's .catch logs a failure (line 69-71)
StoreEntryPut(i, ok) ==
  /\ i \in 1..Len(tasks)
  /\ tasks[i].kind = "store"
  /\ cacheKV' = IF ok THEN KVWrite(cacheKV, tasks[i].key, tasks[i].entry, CacheTtl, now)
                ELSE cacheKV
  /\ tasks' = RemoveAt(tasks, i)
  /\ UNCHANGED <<env, now, ticks, started, rlKV, statsKV, dailyKV, recentKV, req,
                 admitLog, embedLog>>

NoCategories == [c \in {} |-> 0]

\* the DailyMetrics trackQuery starts from when the day has none (line 64-74)
NewDaily(today) ==
  [date |-> today, totalQueries |-> 0, successCount |-> 0, fuzzyCount |-> 0,
   failureCount |-> 0, cacheHits |-> 0, confidenceScores |-> <<>>,
   responseTimesMs |-> <<>>, categories |-> NoCategories]

\* the class trackQuery counts a metric in (line 79-85)
OutcomeClass(metric) ==
  IF metric.success THEN "success" ELSE IF metric.fuzzy THEN "fuzzy" ELSE "failure"

CountCategory(cats, c) ==
  [x \in DOMAIN cats \cup {c} |-> IF x = c THEN (IF c \in DOMAIN cats THEN cats[c] ELSE 0) + 1
                                  ELSE cats[x]]

\* trackQuery's update of the day's record (line 77-100)
BumpDaily(daily, metric) ==
  LET class == OutcomeClass(metric)
  IN [daily EXCEPT
        !.totalQueries = @ + 1,
        !.successCount = @ + (IF class = "success" THEN 1 ELSE 0),
        !.fuzzyCount = @ + (IF class = "fuzzy" THEN 1 ELSE 0),
        !.failureCount = @ + (IF class = "failure" THEN 1 ELSE 0),
        !.cacheHits = @ + (IF metric.cached THEN 1 ELSE 0),
        !.confidenceScores = IF IsSome(metric.confidence)
                             THEN Append(@, Get(metric.confidence)) ELSE @,
        !.responseTimesMs = Append(@, metric.responseTimeMs),
        !.categories = IF IsSome(metric.category)
                       THEN CountCategory(@, Get(metric.category)) ELSE @]

\* trackQuery: await get(metricsKey) settles (line 61-103); a failure is caught
TrackDailyGet(i, ok) ==
  /\ i \in 1..Len(tasks)
  /\ tasks[i].kind = "track" /\ tasks[i].pc = "daily_get"
  /\ LET task == tasks[i]
         existing == KVRead(dailyKV, task.today, now)
         daily == IF IsSome(existing) THEN Get(existing) ELSE NewDaily(task.today)
     IN tasks' = IF ok
                 THEN [tasks EXCEPT ![i] = [task EXCEPT !.pc = "daily_put",
                                              !.write = Some(BumpDaily(daily, task.metric))]]
                 ELSE RemoveAt(tasks, i)
  /\ UNCHANGED <<env, now, ticks, started, rlKV, cacheKV, statsKV, dailyKV, recentKV, req,
                 admitLog, embedLog>>

\* trackQuery: await put(metricsKey, ...) settles, then trackRecentQuery runs up to
\* its get (line 103-129)
TrackDailyPut(i, ok) ==
  /\ i \in 1..Len(tasks)
  /\ tasks[i].kind = "track" /\ tasks[i].pc = "daily_put"
  /\ LET task == tasks[i]
     IN IF ok
        THEN /\ dailyKV' = KVWrite(dailyKV, task.today, Get(task.write), MetricsTtl, now)
             /\ tasks' = [tasks EXCEPT ![i] = [task EXCEPT !.pc = "recent_get",
                                                           !.write = Absent]]
        ELSE /\ tasks' = RemoveAt(tasks, i)
             /\ UNCHANGED dailyKV
  /\ UNCHANGED <<env, now, ticks, started, rlKV, cacheKV, statsKV, recentKV, req,
                 admitLog, embedLog>>

RecentKey == "metrics:recent"

\* mutant of PushRecent: the list is cut one entry later
PushRecentLate(recent, metric) ==
  LET longer == <<metric>> \o recent
  IN IF Len(longer) > RecentMax + 1 THEN SubSeq(longer, 1, RecentMax) ELSE longer

\* recent.unshift(metrics); if (recent.length > 100) recent.splice(100) (line 133-138)
PushRecent(recent, metric) ==
  LET longer == <<metric>> \o recent
  IN IF Len(longer) > RecentMax THEN SubSeq(longer, 1, RecentMax) ELSE longer

\* trackRecentQuery: await get(recentKey) settles (line 129-141)
TrackRecentGet(i, ok) ==
  /\ i \in 1..Len(tasks)
  /\ tasks[i].kind = "track" /\ tasks[i].pc = "recent_get"
  /\ LET task == tasks[i]
         existing == KVRead(recentKV, RecentKey, now)
         recent == IF IsSome(existing) THEN Get(existing) ELSE <<>>
     IN tasks' = IF ok
                 THEN [tasks EXCEPT ![i] = [task EXCEPT !.pc = "recent_put",
                                              !.write = Some(PushRecent(recent, task.metric))]]
                 ELSE RemoveAt(tasks, i)
  /\ UNCHANGED <<env, now, ticks, started, rlKV, cacheKV, statsKV, dailyKV, recentKV, req,
                 admitLog, embedLog>>

\* trackRecentQuery: await put(recentKey, ...) settles (line 141-146)
TrackRecentPut(i, ok) ==
  /\ i \in 1..Len(tasks)
  /\ tasks[i].kind = "track" /\ tasks[i].pc = "recent_put"
  /\ recentKV' = IF ok THEN KVWrite(recentKV, RecentKey, Get(tasks[i].write), RecentTtl, now)
                 ELSE recentKV
  /\ tasks' = RemoveAt(tasks, i)
  /\ UNCHANGED <<env, now, ticks, started, rlKV, cacheKV, statsKV, dailyKV, req,
                 admitLog, embedLog>>

\* trackQuery(env, metric) is called and runs up to its first await; the caller r
\* keeps the metrics it has handed over and notes a call made while another runs
TrackQueryStart(r, metric, max) ==
  /\ started < max
  /\ started' = started + 1
  /\ tasks' = tasks \o TrackQueryCall(metric, now)
  /\ req' = [req EXCEPT ![r] = [@ EXCEPT !.tracked = Append(@, metric),
                                         !.overlapped = @ \/ tasks # <<>>]]
  /\ UNCHANGED <<env, now, ticks, rlKV, cacheKV, statsKV, dailyKV, recentKV, admitLog,
                 embedLog>>

\* -------------------------------------------------------------- middleware
\* String.prototype.split(',')
RECURSIVE Split(_)
Split(s) ==
  IF \A i \in 1..Len(s) : s[i] # "," THEN <<s>>
  ELSE LET i == CHOOSE j \in 1..Len(s) : s[j] = "," /\ \A k \in 1..(j - 1) : s[k] # ","
       IN <<SubSeq(s, 1, i - 1)>> \o Split(SubSeq(s, i + 1, Len(s)))

\* Array.prototype.includes
Includes(list, x) == \E i \in 1..Len(list) : list[i] = x

\* mutant of ListOf: the entries are trimmed
ListOfTrimmed(setting) ==
  IF IsSome(setting) THEN [i \in 1..Len(Split(Get(setting))) |-> Trim(Split(Get(setting))[i])]
  ELSE <<>>

\* c.env.X?.split(',') || []
ListOf(setting) == IF IsSome(setting) THEN Split(Get(setting)) ELSE <<>>

\* !c.req.header(name): no header, or an empty one
NoHeader(h) == ~IsSome(h) \/ Get(h) = <<>>

Unauthorized(error) == [status |-> 401, success |-> FALSE, error |-> error]
Forbidden(error) == [status |-> 403, success |-> FALSE, error |-> error]

\* await next(), with a next that returns at once
CallNext(rec) == [rec EXCEPT !.pc = "done", !.nNext = @ + 1]

\* mutant of publicApiKeyAuth: without a list every key is refused
publicApiKeyAuthStrict(rec, e) ==
  IF NoHeader(rec.apiKey) THEN Respond(rec, Unauthorized("API key required"))
  ELSE IF ~Includes(ListOf(e.PUBLIC_API_KEYS), Get(rec.apiKey))
  THEN Respond(rec, Forbidden("Invalid API key"))
  ELSE CallNext(rec)

\* publicApiKeyAuth (part_002 line 14-47)
publicApiKeyAuth(rec, e) ==
  LET publicKeys == ListOf(e.PUBLIC_API_KEYS)
  IN IF NoHeader(rec.apiKey) THEN Respond(rec, Unauthorized("API key required"))
     ELSE IF Len(publicKeys) > 0 /\ ~Includes(publicKeys, Get(rec.apiKey))
     THEN Respond(rec, Forbidden("Invalid API key"))
     ELSE CallNext(rec)

\* adminApiKeyAuth (part_002 line 54-87)
adminApiKeyAuth(rec, e) ==
  LET adminKeys == ListOf(e.ADMIN_API_KEYS)
  IN IF NoHeader(rec.apiKey) THEN Respond(rec, Unauthorized("Admin API key required"))
     ELSE IF ~Includes(adminKeys, Get(rec.apiKey))
     THEN Respond(rec, Forbidden("Invalid admin API key"))
     ELSE CallNext(rec)

AllowOrigin == "Access-Control-Allow-Origin"

\* the headers corsMiddleware sets for an origin; 'true' only with c.header
CorsHeaders(origin, credentials) ==
  [h \in {AllowOrigin, "Access-Control-Allow-Methods", "Access-Control-Allow-Headers",
          "Access-Control-Max-Age"}
         \cup (IF credentials THEN {"Access-Control-Allow-Credentials"} ELSE {}) |->
     IF h = AllowOrigin THEN (IF origin = <<>> THEN <<"*">> ELSE origin)
     ELSE IF h = "Access-Control-Allow-Methods" THEN <<"GET, POST, PUT, DELETE, OPTIONS">>
     ELSE IF h = "Access-Control-Allow-Headers"
     THEN <<"Content-Type, X-API-Key, Authorization">>
     ELSE IF h = "Access-Control-Max-Age" THEN <<"86400">>
     ELSE <<"true">>]

\* c.env.ALLOWED_ORIGINS?.split(',').map(o => o.trim()) || ['*']
AllowedOrigins(e) ==
  IF IsSome(e.ALLOWED_ORIGINS)
  THEN [i \in 1..Len(Split(Get(e.ALLOWED_ORIGINS))) |-> Trim(Split(Get(e.ALLOWED_ORIGINS))[i])]
  ELSE << <<"*">> >>

\* allowedOrigins.includes('*') || allowedOrigins.includes(origin)
IsAllowed(origin, e) ==
  Includes(AllowedOrigins(e), <<"*">>) \/ Includes(AllowedOrigins(e), origin)

\* corsMiddleware (part_002 line 197-230)
corsMiddleware(rec, e) ==
  LET origin == IF NoHeader(rec.origin) THEN <<>> ELSE Get(rec.origin)
      set == IF IsAllowed(origin, e)
             THEN [rec EXCEPT !.headers = CorsHeaders(origin, TRUE)]
             ELSE rec
  IN IF rec.method = "OPTIONS"
     THEN Respond(set, [status |-> 204, headers |-> CorsHeaders(origin, FALSE)])
     ELSE CallNext(set)

\* the headers of the response the client receives: those of c.header and those
\* of the response the middleware returned
ResponseHeaders(rec) ==
  [h \in DOMAIN rec.headers
         \cup (IF Has(rec.resp, "headers") THEN DOMAIN rec.resp.headers ELSE {}) |->
     IF Has(rec.resp, "headers") /\ h \in DOMAIN rec.resp.headers THEN rec.resp.headers[h]
     ELSE rec.headers[h]]

\* ipWhitelist (part_002 line 236-255)
ipWhitelist(rec, e) ==
  LET whitelistedIPs == ListOf(e.WHITELISTED_IPS)
  IN IF Len(whitelistedIPs) > 0 /\ ~NoHeader(rec.ipHeader)
        /\ ~Includes(whitelistedIPs, Get(rec.ipHeader))
     THEN Respond(rec, Forbidden("Access denied"))
     ELSE CallNext(rec)

\* one middleware is called with a request of the given headers and method
MiddlewareCall(r, rec) ==
  /\ req[r].pc = "idle"
  /\ req' = [req EXCEPT ![r] =
               CASE rec.mw = "publicApiKeyAuth" -> publicApiKeyAuth(rec, env)
                 [] rec.mw = "adminApiKeyAuth" -> adminApiKeyAuth(rec, env)
                 [] rec.mw = "corsMiddleware" -> corsMiddleware(rec, env)
                 [] rec.mw = "ipWhitelist" -> ipWhitelist(rec, env)]
  /\ UNCHANGED <<env, now, ticks, started, rlKV, cacheKV, statsKV, dailyKV, recentKV,
                 tasks, admitLog, embedLog>>

publicApiKeyAuthCall(r, key) ==
  MiddlewareCall(r, [IdleReq EXCEPT !.mw = "publicApiKeyAuth", !.apiKey = key])

adminApiKeyAuthCall(r, key) ==
  MiddlewareCall(r, [IdleReq EXCEPT !.mw = "adminApiKeyAuth", !.apiKey = key])

corsMiddlewareCall(r, origin, method) ==
  MiddlewareCall(r, [IdleReq EXCEPT !.mw = "corsMiddleware", !.origin = origin,
                                    !.method = method])

ipWhitelistCall(r, ip) ==
  MiddlewareCall(r, [IdleReq EXCEPT !.mw = "ipWhitelist", !.ipHeader = ip])

\* --------------------------------------------------------- admin endpoints
\* a request that adminApiKeyAuth has let through arrives at app.delete('/api/cache');
\* clearCache runs up to its list call (index.ts line 453-455, embedding-cache.ts
\* line 176-183)
ClearStart(r, max) ==
  /\ req[r].pc \in {"idle", "done"}
  /\ started < max
  /\ started' = started + 1
  /\ LET fresh == [IdleReq EXCEPT !.seq = started + 1]
     IN req' = [req EXCEPT ![r] =
                 IF ~env.EMBEDDING_CACHE_KV THEN Respond(fresh, ClearResponse(0))
                 ELSE [fresh EXCEPT !.pc = "clear_list"]]
  /\ UNCHANGED <<env, now, ticks, rlKV, cacheKV, statsKV, dailyKV, recentKV, tasks,
                 admitLog, embedLog>>

\* catch (error) of clearCache: log, return cleared (line 195-199); the handler answers
ClearReturn(rec) == Respond([rec EXCEPT !.keys = <<>>], ClearResponse(rec.cleared))

\* the for loop of clearCache reaches its next delete, or the delete of the stats
ClearLoop(rec) ==
  IF rec.keys = <<>> THEN [rec EXCEPT !.pc = "clear_stats"]
  ELSE [rec EXCEPT !.pc = "clear_delete"]

\* clearCache: await list({prefix: 'emb:'}) settles (line 183)
ClearList(r, ok) ==
  /\ req[r].pc = "clear_list"
  /\ LET rec == req[r]
     IN req' = [req EXCEPT ![r] =
                 IF ~ok THEN ClearReturn([rec EXCEPT !.storeFault = TRUE])
                 ELSE ClearLoop([rec EXCEPT !.keys = KeyArray(KVList(cacheKV, now))])]
  /\ UNCHANGED <<env, now, ticks, started, rlKV, cacheKV, statsKV, dailyKV, recentKV,
                 tasks, admitLog, embedLog>>

\* clearCache: await delete(key.name) settles, cleared++ (line 186-189)
ClearDelete(r, ok) ==
  /\ req[r].pc = "clear_delete"
  /\ LET rec == req[r]
     IN IF ~ok
        THEN /\ req' = [req EXCEPT ![r] = ClearReturn([rec EXCEPT !.storeFault = TRUE])]
             /\ UNCHANGED cacheKV
        ELSE /\ cacheKV' = KVDelete(cacheKV, Head(rec.keys))
             /\ req' = [req EXCEPT ![r] =
                          ClearLoop([rec EXCEPT !.keys = Tail(@), !.cleared = @ + 1])]
  /\ UNCHANGED <<env, now, ticks, started, rlKV, statsKV, dailyKV, recentKV, tasks,
                 admitLog, embedLog>>

\* clearCache: await delete('cache:stats') settles (line 192-199), the handler
\* answers (index.ts line 457-461)
ClearStats(r, ok) ==
  /\ req[r].pc = "clear_stats"
  /\ statsKV' = IF ok THEN KVDelete(statsKV, StatsKey) ELSE statsKV
  /\ req' = [req EXCEPT ![r] = ClearReturn([req[r] EXCEPT !.storeFault = ~ok])]
  /\ UNCHANGED <<env, now, ticks, started, rlKV, cacheKV, dailyKV, recentKV, tasks,
                 admitLog, embedLog>>

\* a request that adminApiKeyAuth has let through arrives at
\* app.get('/api/cache/stats'); getCacheStats runs up to its get (index.ts line
\* 412-414, embedding-cache.ts line 157-161)
StatsStart(r, max) ==
  /\ req[r].pc \in {"idle", "done"}
  /\ started < max
  /\ started' = started + 1
  /\ LET fresh == [IdleReq EXCEPT !.seq = started + 1]
     IN req' = [req EXCEPT ![r] =
                 IF ~env.EMBEDDING_CACHE_KV THEN Respond(fresh, StatsDisabled)
                 ELSE [fresh EXCEPT !.pc = "stats_read"]]
  /\ UNCHANGED <<env, now, ticks, rlKV, cacheKV, statsKV, dailyKV, recentKV,
                 tasks, admitLog, embedLog>>

\* if (!stats) of the handler (index.ts line 416-421)
NoStats(rec) == Respond(rec, StatsDisabled)

\* getCacheStats: await get('cache:stats', 'json') settles, a failure is caught and
\* null returned (embedding-cache.ts line 160-166); the handler answers when there
\* are no stats, else getCacheSize runs up to its list (index.ts line 416-423)
GetCacheStats(r, ok) ==
  /\ req[r].pc = "stats_read"
  /\ LET rec == req[r]
         stats == KVRead(statsKV, StatsKey, now)
     IN req' = [req EXCEPT ![r] =
                 IF ~ok THEN NoStats([rec EXCEPT !.storeFault = TRUE])
                 ELSE IF ~IsSome(stats) THEN NoStats(rec)
                 ELSE [rec EXCEPT !.pc = "size_list", !.stats = stats]]
  /\ UNCHANGED <<env, now, ticks, started, rlKV, cacheKV, statsKV, dailyKV, recentKV,
                 tasks, admitLog, embedLog>>

\* getCacheSize: await list({prefix: 'emb:'}) settles, a failure is caught and 0
\* returned (embedding-cache.ts line 211-217); the handler answers (index.ts line
\* 425-436)
GetCacheSize(r, ok) ==
  /\ req[r].pc = "size_list"
  /\ LET rec == req[r]
         size == IF ok THEN Cardinality(KVList(cacheKV, now)) ELSE 0
     IN req' = [req EXCEPT ![r] =
                 Respond([rec EXCEPT !.storeFault = ~ok],
                         StatsResponse(Get(rec.stats), size))]
  /\ UNCHANGED <<env, now, ticks, started, rlKV, cacheKV, statsKV, dailyKV, recentKV,
                 tasks, admitLog, embedLog>>

\* ------------------------------------------------------------------- clock
\* how far the clock moves between two steps
TickSteps == {500, 59500}

Tick(d) ==
  /\ ticks < MaxTicks
  /\ ticks' = ticks + 1
  /\ now' = now + d
  /\ UNCHANGED <<env, started, rlKV, cacheKV, statsKV, dailyKV, recentKV, req, tasks,
                 admitLog, embedLog>>

\* --------------------------------------------------------- specifications
EnvOf(rl, cache, metrics, max, primary, fuzzy, k) ==
  [RATE_LIMIT_KV |-> rl, EMBEDDING_CACHE_KV |-> cache, METRICS_KV |-> metrics,
   RATE_LIMIT_MAX |-> max, SIMILARITY_THRESHOLD |-> primary, FUZZY_THRESHOLD |-> fuzzy,
   TOP_K |-> k, PUBLIC_API_KEYS |-> Absent, ADMIN_API_KEYS |-> Absent,
   ALLOWED_ORIGINS |-> Absent, WHITELISTED_IPS |-> Absent]

InitStores ==
  /\ now = 0 /\ ticks = 0 /\ started = 0
  /\ rlKV = EmptyKV /\ cacheKV = EmptyKV /\ statsKV = EmptyKV
  /\ dailyKV = EmptyKV /\ recentKV = EmptyKV
  /\ req = [r \in Slots |-> IdleReq]
  /\ tasks = <<>> /\ admitLog = <<>> /\ embedLog = <<>>

Sifremi == <<"s","i","f","r","e","m","i"," ","u","n","u","t","t","u","m">>
SifremiTypo == <<" ","S","i","f","r","e","m","i"," "," ","u","n","u","t","d","u","m","!">>
Sifre == <<"s","i","f","r","e","?">>

\* the questions of the handler specification
AskQuestions ==
  {Undefined, BadJson, Num(5), Str(<<>>), Str(<<" ", "\t">>), Str(<<"!">>),
   Str(Sifremi), Str(SifremiTypo), Str(Sifre)}

\* what VECTORIZE.query answers in the handler specification: nothing, one match
\* or topK matches
AskIndexOutcomes(e) ==
  {o \in IndexOutcomes(e) : Len(o.matches) \in {0, 1, topK(e)}}

\* the /api/ask handler behind a rate limiter without a store and without the
\* metrics store: requests one after the other, every cache-store operation may
\* fail, the detached cache write runs on its own
InitAsk ==
  /\ InitStores
  /\ env \in {EnvOf(FALSE, cache, FALSE, Absent, t[1], t[2], Absent) :
                cache \in BOOLEAN,
                t \in {<<Absent, Absent>>, <<Some(65), Some(65)>>, <<Some(65), Some(82)>>}}

NextAsk ==
  \/ \E q \in AskQuestions : Start(1, "", q, MaxAskRequests)
  \/ Body(1)
  \/ \E ok \in BOOLEAN : CacheGet(1, ok)
  \/ \E a \in ProviderAnswers : Embed(1, a)
  \/ \E ok \in BOOLEAN : StatsGet(1, ok)
  \/ \E ok \in BOOLEAN : StatsPut(1, ok)
  \/ \E a \in AskIndexOutcomes(env) : Search(1, a)
  \/ \E i \in 1..Len(tasks), ok \in BOOLEAN : StoreEntryPut(i, ok)

SpecAsk == InitAsk /\ [][NextAsk]_vars

\* the rate limiter in front of the handler, without the cache and metrics stores:
\* requests of one client one after the other, each with an empty question (the
\* handler answers 400 at once), the clock may advance between any two steps, every
\* rate-limit store operation may fail
InitRate ==
  /\ InitStores
  /\ env \in {EnvOf(rl, FALSE, FALSE, max, Absent, Absent, Absent) :
                rl \in BOOLEAN, max \in {Absent} \cup {Some(n) : n \in 1..MaxLimit}}

\* the CF-Connecting-IP header of the client ("": none)
RateClients == {""}

NextRate ==
  \/ \E h \in RateClients : Start(1, h, Str(<<>>), MaxRateRequests)
  \/ \E ok \in BOOLEAN : RlGet(1, ok)
  \/ \E ok \in BOOLEAN : RlPut(1, ok)
  \/ Body(1)
  \/ \E d \in TickSteps : Tick(d)

SpecRate == InitRate /\ [][NextRate]_vars

\* the /api/ask handler with the cache and the metrics store, behind a rate limiter
\* without a store: requests one after the other while the clock stands still, every
\* cache, stats and metrics operation may fail, the detached cache write and
\* trackQuery run on their own
InitAux ==
  /\ InitStores
  /\ env = EnvOf(FALSE, TRUE, TRUE, Absent, Absent, Absent, Absent)

AuxQuestions == {Str(<<" ">>), Str(Sifremi)}

AuxProviderAnswers == {"reject", "v1"}

AuxIndexOutcomes == {[ok |-> FALSE, matches |-> <<>>], [ok |-> TRUE, matches |-> <<Match(1, 82)>>]}

NextAux ==
  \/ \E q \in AuxQuestions : Start(1, "", q, MaxAuxRequests)
  \/ Body(1)
  \/ \E ok \in BOOLEAN : CacheGet(1, ok)
  \/ \E a \in AuxProviderAnswers : Embed(1, a)
  \/ \E ok \in BOOLEAN : StatsGet(1, ok)
  \/ \E ok \in BOOLEAN : StatsPut(1, ok)
  \/ \E a \in AuxIndexOutcomes : Search(1, a)
  \/ \E i \in 1..Len(tasks), ok \in BOOLEAN : StoreEntryPut(i, ok)
  \/ \E i \in 1..Len(tasks), ok \in BOOLEAN : TrackDailyGet(i, ok)
  \/ \E i \in 1..Len(tasks), ok \in BOOLEAN : TrackDailyPut(i, ok)
  \/ \E i \in 1..Len(tasks), ok \in BOOLEAN : TrackRecentGet(i, ok)
  \/ \E i \in 1..Len(tasks), ok \in BOOLEAN : TrackRecentPut(i, ok)

SpecAux == InitAux /\ [][NextAux]_vars

\* the /api/ask handler without any store, for TOP_K unset, 1 and MaxTopK: requests
\* one after the other, the index answers with any number of matches up to topK
InitAlternates ==
  /\ InitStores
  /\ env \in {EnvOf(FALSE, FALSE, FALSE, Absent, Absent, Absent, k) :
                k \in {Absent, Some(1), Some(MaxTopK)}}

NextAlternates ==
  \/ \E q \in {Str(Sifre), Str(Sifremi)} : Start(1, "", q, MaxAskRequests)
  \/ Body(1)
  \/ \E a \in Vectors : Embed(1, a)
  \/ \E a \in IndexOutcomes(env) : Search(1, a)

SpecAlternates == InitAlternates /\ [][NextAlternates]_vars

\* --- normalizeTurkish called on its own
\* the uppercase of one character
Upper(c) ==
  IF \E k \in 1..Len(Smalls) : Smalls[k] = c
  THEN Capitals[CHOOSE k \in 1..Len(Smalls) : Smalls[k] = c]
  ELSE IF c = "i." THEN "I" ELSE c

\* the typos and the replacements of the table
TableWords ==
  {TURKISH_TYPO_MAP[i][1] : i \in 1..Len(TURKISH_TYPO_MAP)}
    \cup {TURKISH_TYPO_MAP[i][2] : i \in 1..Len(TURKISH_TYPO_MAP)}

\* a table word as it is, in capitals, between punctuation, glued to a letter or a
\* Turkish letter, and followed by another typo
TableTexts ==
  UNION {{w, MapSeq(w, Upper), <<" ", "!">> \o w \o <<"?", "\t">>, <<"x">> \o w,
          w \o <<"x">>, <<"s.">> \o w, w \o <<"i.">>, <<"x", "s.">> \o w,
          w \o <<"  ">> \o <<"s","i","f","r","e">>,
          w \o <<"!">> \o <<"g","i","r","i","s">>} : w \in TableWords}

TextAlphabet == {" ", "\t", "!", "?", "a", "S", "s.", "I.", "_"}

ShortTexts == UNION {[1..n -> TextAlphabet] : n \in 0..MaxTextLen}

NormalizeInputs ==
  {Undefined, Null, Num(0), Num(5), BadJson}
    \cup {Str(w) : w \in TableTexts \cup ShortTexts}

\* normalizeTurkish(x) is called and returns
NormalizeCall(r, x) ==
  /\ r = 1 /\ req[r].pc = "idle"
  /\ req' = [req EXCEPT ![r] = [IdleReq EXCEPT !.pc = "done", !.question = x,
                                               !.normalized = normalizeTurkish(x),
                                               !.nNormalize = 1]]
  /\ UNCHANGED <<env, now, ticks, started, rlKV, cacheKV, statsKV, dailyKV, recentKV,
                 tasks, admitLog, embedLog>>

\* normalizeTurkish is called with the text the call of slot r returned
NormalizeAgain(r) ==
  /\ r = 1 /\ req[r].pc = "done" /\ req[r + 1].pc = "idle"
  /\ LET x == Str(req[r].normalized)
     IN req' = [req EXCEPT ![r + 1] = [IdleReq EXCEPT !.pc = "done", !.question = x,
                                                      !.normalized = normalizeTurkish(x),
                                                      !.nNormalize = 1]]
  /\ UNCHANGED <<env, now, ticks, started, rlKV, cacheKV, statsKV, dailyKV, recentKV,
                 tasks, admitLog, embedLog>>

InitNormalize ==
  /\ InitStores
  /\ env = EnvOf(FALSE, FALSE, FALSE, Absent, Absent, Absent, Absent)

NextNormalize ==
  \/ \E x \in NormalizeInputs : NormalizeCall(1, x)
  \/ NormalizeAgain(1)

SpecNormalize == InitNormalize /\ [][NextNormalize]_vars

\* --- the admin endpoints of the cache
\* the normalized questions whose embeddings the cache may hold
AdminQuestions == {normalizeTurkish(Str(Sifre)), normalizeTurkish(Str(Sifremi)), <<"a">>}

\* the cache after misses on the questions qs at time 0
StoredEntries(qs) ==
  [k \in {CacheKeyOf(q) : q \in qs} |->
     [v |-> CacheEntry("v1", CHOOSE q \in qs : CacheKeyOf(q) = k, 0), at |-> 0,
      ttl |-> CacheTtl]]

\* the stats record after the updates of a sequence of lookups
RECURSIVE StatsAfter(_)
StatsAfter(hits) ==
  IF hits = <<>> THEN NewStats(0)
  ELSE BumpStats(StatsAfter(SubSeq(hits, 1, Len(hits) - 1)), hits[Len(hits)])

StoredStats(hits) ==
  IF hits = <<>> THEN EmptyKV
  ELSE KVWrite(EmptyKV, StatsKey, StatsAfter(hits), StatsTtl, 0)

\* no request is in flight
Quiet == \A r \in Slots : req[r].pc \in {"idle", "done"}

\* DELETE /api/cache and GET /api/cache/stats one after the other on a cache that
\* earlier queries have filled, every store operation may fail
InitAdmin ==
  /\ now = 0 /\ ticks = 0 /\ started = 0
  /\ env \in {EnvOf(FALSE, cache, FALSE, Absent, Absent, Absent, Absent) : cache \in BOOLEAN}
  /\ cacheKV \in {StoredEntries(qs) : qs \in IF env.EMBEDDING_CACHE_KV
                                               THEN SUBSET AdminQuestions ELSE {{}}}
  /\ statsKV \in {StoredStats(h) : h \in IF env.EMBEDDING_CACHE_KV /\ cacheKV # EmptyKV
                                          THEN {<<FALSE>>, <<FALSE, FALSE, TRUE>>}
                                          ELSE {<<>>}}
  /\ rlKV = EmptyKV /\ dailyKV = EmptyKV /\ recentKV = EmptyKV
  /\ req = [r \in Slots |-> IdleReq]
  /\ tasks = <<>> /\ admitLog = <<>> /\ embedLog = <<>>

NextAdmin ==
  \E r \in Slots :
    \/ Quiet /\ ClearStart(r, MaxAdminRequests)
    \/ \E ok \in BOOLEAN : ClearList(r, ok)
    \/ \E ok \in BOOLEAN : ClearDelete(r, ok)
    \/ \E ok \in BOOLEAN : ClearStats(r, ok)
    \/ Quiet /\ StatsStart(r, MaxAdminRequests)
    \/ \E ok \in BOOLEAN : GetCacheStats(r, ok)
    \/ \E ok \in BOOLEAN : GetCacheSize(r, ok)

SpecAdmin == InitAdmin /\ [][NextAdmin]_vars

\* --- overlapping requests
\* /api/ask requests of one client that overlap, each in its own slot, either with
\* the rate-limit store alone (empty questions: the handler answers 400 at once) or
\* with the cache store alone; every store operation succeeds, the clock stands
\* still, the detached cache write runs on its own
InitConcurrent ==
  /\ InitStores
  /\ env \in {EnvOf(TRUE, FALSE, FALSE, Absent, Absent, Absent, Absent),
              EnvOf(FALSE, TRUE, FALSE, Absent, Absent, Absent, Absent)}

ConcurrentQuestions == IF env.EMBEDDING_CACHE_KV THEN {Str(Sifre), Str(Sifremi)} ELSE {Str(<<>>)}

NextConcurrent ==
  \/ \E r \in Slots :
       \/ \E q \in ConcurrentQuestions : Start(r, "", q, MaxConcurrentRequests)
       \/ RlGet(r, TRUE)
       \/ RlPut(r, TRUE)
       \/ Body(r)
       \/ CacheGet(r, TRUE)
       \/ Embed(r, "v1")
       \/ StatsGet(r, TRUE)
       \/ StatsPut(r, TRUE)
       \/ Search(r, [ok |-> TRUE, matches |-> <<Match(1, 82)>>])
  \/ \E i \in 1..Len(tasks) : StoreEntryPut(i, TRUE)

SpecConcurrent == InitConcurrent /\ [][NextConcurrent]_vars

\* overlapping requests of one client at the rate limiter, for a limit unset or
\* 1..MaxLimit: the store answers every operation, the clock stands still
InitRateOverlap ==
  /\ InitStores
  /\ env \in {EnvOf(TRUE, FALSE, FALSE, max, Absent, Absent, Absent) :
                max \in {Absent} \cup {Some(n) : n \in 1..MaxLimit}}

NextRateOverlap ==
  \E r \in Slots :
    \/ Start(r, "", Str(<<>>), MaxConcurrentRequests)
    \/ RlGet(r, TRUE)
    \/ RlPut(r, TRUE)
    \/ Body(r)

SpecRateOverlap == InitRateOverlap /\ [][NextRateOverlap]_vars

\* overlapping getEmbeddingWithCache calls with the cache store: every operation
\* succeeds, nothing clears the cache, the clock stands still
InitStatsOverlap ==
  /\ InitStores
  /\ env = EnvOf(FALSE, TRUE, FALSE, Absent, Absent, Absent, Absent)

NextStatsOverlap ==
  \/ \E r \in Slots :
       \/ \E q \in {Str(Sifre), Str(Sifremi)} : Start(r, "", q, MaxOverlapRequests)
       \/ Body(r)
       \/ CacheGet(r, TRUE)
       \/ Embed(r, "v1")
       \/ StatsGet(r, TRUE)
       \/ StatsPut(r, TRUE)
       \/ Search(r, [ok |-> TRUE, matches |-> <<Match(1, 82)>>])
  \/ \E i \in 1..Len(tasks) : StoreEntryPut(i, TRUE)

SpecStatsOverlap == InitStatsOverlap /\ [][NextStatsOverlap]_vars

\* --- trackQuery called on its own
\* the j-th newest metric of the recent list the behaviour starts with
OldMetric(j) == Metric(0 - j, Sifre, FALSE, Absent, FALSE, FALSE, 0 - j, Absent)

\* the n-th metric handed to trackQuery: a direct answer or a miss, told apart
\* by its timestamp
TrackInputs(n) ==
  {Metric(n, Sifre, TRUE, Some(82), cached, FALSE, 0, Some("giris")) : cached \in BOOLEAN}
    \cup {Metric(n, Sifre, FALSE, Absent, FALSE, FALSE, 0, Absent)}

\* trackQuery calls that may overlap, with the metrics store alone and a recent list
\* of 0, RecentMax - 1 or RecentMax metrics; every store operation succeeds, the
\* clock stands still
InitMetrics ==
  /\ env = EnvOf(FALSE, FALSE, TRUE, Absent, Absent, Absent, Absent)
  /\ now = 0 /\ ticks = 0 /\ started = 0
  /\ rlKV = EmptyKV /\ cacheKV = EmptyKV /\ statsKV = EmptyKV /\ dailyKV = EmptyKV
  /\ \E len \in {0, RecentMax - 1, RecentMax} :
       recentKV = IF len = 0 THEN EmptyKV
                  ELSE KVWrite(EmptyKV, RecentKey, [j \in 1..len |-> OldMetric(j)],
                               RecentTtl, 0)
  /\ req = [r \in Slots |-> IdleReq]
  /\ tasks = <<>> /\ admitLog = <<>> /\ embedLog = <<>>

NextMetrics ==
  \/ \E metric \in TrackInputs(started + 1) : TrackQueryStart(1, metric, MaxTrackCalls)
  \/ \E i \in 1..Len(tasks) :
       \/ TrackDailyGet(i, TRUE)
       \/ TrackDailyPut(i, TRUE)
       \/ TrackRecentGet(i, TRUE)
       \/ TrackRecentPut(i, TRUE)

SpecMetrics == InitMetrics /\ [][NextMetrics]_vars

\* --- the middleware, each called on its own
ListAlphabet == {"a", "b", ",", " ", "*"}

\* the settings of a comma-separated list: none, or a text
ListSettings ==
  {Absent} \cup {Some(t) : t \in UNION {[1..n -> ListAlphabet] : n \in 0..MaxListLen}}

\* the values of a request header: none, empty, or a text
HeaderValues == {Absent, Some(<<>>), Some(<<"a">>), Some(<<"b">>), Some(<<"a", "b">>)}

Methods == {"GET", "POST", "OPTIONS"}

WithLists(e, public, admin, origins, ips) ==
  [e EXCEPT !.PUBLIC_API_KEYS = public, !.ADMIN_API_KEYS = admin,
            !.ALLOWED_ORIGINS = origins, !.WHITELISTED_IPS = ips]

\* one list takes every setting while the other key list is absent or "b"
InitMiddleware ==
  /\ InitStores
  /\ \E l \in ListSettings, q \in {Absent, Some(<<"b">>)} :
       env \in {WithLists(EnvOf(FALSE, FALSE, FALSE, Absent, Absent, Absent, Absent), k[1], k[2], l, l) :
                  k \in {<<l, q>>, <<q, l>>}}

NextMiddleware ==
  \/ \E key \in HeaderValues : publicApiKeyAuthCall(1, key)
  \/ \E key \in HeaderValues : adminApiKeyAuthCall(1, key)
  \/ \E origin \in HeaderValues, method \in Methods : corsMiddlewareCall(1, origin, method)
  \/ \E ip \in HeaderValues : ipWhitelistCall(1, ip)

SpecMiddleware == InitMiddleware /\ [][NextMiddleware]_vars

\* --- the whole pipeline of one request
\* /api/ask behind the rate limiter with all three stores: requests of one client one
\* after the other while the clock stands still; every store operation may fail,
\* the provider may reject, the index may throw; the detached writes run on their own
InitPipeline ==
  /\ InitStores
  /\ env = EnvOf(TRUE, TRUE, TRUE, Absent, Absent, Absent, Absent)

PipelineQuestions == {Str(<<>>), Str(Sifre)}

RateLimiterStep(r) == \E ok \in BOOLEAN : RlGet(r, ok) \/ RlPut(r, ok)

HandlerStep(r) ==
  \/ Body(r)
  \/ \E ok \in BOOLEAN : CacheGet(r, ok) \/ StatsGet(r, ok) \/ StatsPut(r, ok)
  \/ \E a \in AuxProviderAnswers : Embed(r, a)
  \/ \E a \in AuxIndexOutcomes : Search(r, a)

DetachedStep ==
  \E i \in 1..Len(tasks), ok \in BOOLEAN :
    \/ StoreEntryPut(i, ok)
    \/ TrackDailyGet(i, ok) \/ TrackDailyPut(i, ok)
    \/ TrackRecentGet(i, ok) \/ TrackRecentPut(i, ok)

NextPipeline ==
  \/ \E q \in PipelineQuestions : Start(1, "", q, MaxPipelineRequests)
  \/ RateLimiterStep(1)
  \/ HandlerStep(1)
  \/ DetachedStep

SpecPipeline == InitPipeline /\ [][NextPipeline]_vars

NextPipelineLive ==
  \/ \E q \in PipelineQuestions : Start(1, "", q, MaxLiveRequests)
  \/ RateLimiterStep(1)
  \/ HandlerStep(1)
  \/ DetachedStep

\* every await of the request settles: the stores, the provider and the index answer
\* or fail; nothing is assumed about the detached writes
SpecPipelineLive ==
  /\ InitPipeline /\ [][NextPipelineLive]_vars
  /\ WF_vars(RateLimiterStep(1)) /\ WF_vars(HandlerStep(1))

\* ------------------------------------------------------------------ claims
Done(r) == req[r].pc = "done"

\* the handler got a list from the index
Answered(r) == Done(r) /\ IsSome(req[r].results) /\ Get(req[r].results).ok

BestScore(r) == Get(req[r].results).matches[1].score

IsDirect(resp) == resp.status = 200 /\ resp.success
IsFuzzy(resp) ==
  resp.status = 200 /\ ~resp.success /\ (IF Has(resp, "fuzzy") THEN resp.fuzzy ELSE FALSE)
IsNoMatch(resp) == resp.status = 200 /\ ~resp.success /\ ~Has(resp, "fuzzy")

\* C1: with fuzzyThreshold <= primaryThreshold and a non-empty index answer, the
\* response is Direct iff best.score >= primaryThreshold, Fuzzy iff
\* fuzzyThreshold <= best.score < primaryThreshold, NoMatch iff best.score <
\* fuzzyThreshold; a score equal to a threshold is in the upper class.
C1_ThresholdPartition ==
  \A r \in Slots :
    ( /\ Answered(r)
      /\ Len(Get(req[r].results).matches) > 0
      /\ fuzzyThreshold(env) <= primaryThreshold(env) )
    => LET s == BestScore(r)
           resp == req[r].resp
       IN /\ IsDirect(resp) <=> s >= primaryThreshold(env)
          /\ IsFuzzy(resp) <=> (fuzzyThreshold(env) <= s /\ s < primaryThreshold(env))
          /\ IsNoMatch(resp) <=> s < fuzzyThreshold(env)

\* a best score exactly at the primary threshold was answered Direct, with a
\* lower fuzzy threshold configured
C1_Witness ==
  \E r \in Slots :
    /\ Answered(r) /\ Len(Get(req[r].results).matches) > 0
    /\ fuzzyThreshold(env) < primaryThreshold(env)
    /\ BestScore(r) = primaryThreshold(env)
    /\ IsDirect(req[r].resp)

\* getEmbeddingWithCache has returned to the handler
Returned(r) == req[r].nSearch > 0

\* getEmbeddingWithCache threw: the handler's catch answered before any search
CallFailed(r) ==
  Done(r) /\ req[r].nNormalize > 0 /\ req[r].nSearch = 0 /\ req[r].resp = InternalError

\* the provider failed: it rejected, or answered no usable vector, or generateEmbedding
\* refused an empty text
ProviderFailed(r) ==
  \/ IsSome(req[r].provider) /\ Get(req[r].provider) \notin Vectors
  \/ req[r].nNormalize > 0 /\ req[r].normalized = <<>>

\* C4: with the cache store unavailable (no binding, or the lookup fails, or a stats
\* or entry write fails) getEmbeddingWithCache returns the provider's vector with
\* cached = false, and it fails only when the provider fails.
C4_CacheBypass ==
  \A r \in Slots :
    /\ CallFailed(r) => ProviderFailed(r)
    /\ (Returned(r) /\ req[r].lookup \in {"nokv", "fault"})
         => /\ ~req[r].isHit
            /\ req[r].nEmbed = 1
            /\ req[r].embedding = req[r].provider

\* a lookup that failed, then a stats update that failed, and still the call returned
\* the provider's vector
C4_Witness ==
  \E r \in Slots :
    /\ Returned(r) /\ req[r].lookup = "fault" /\ req[r].storeFault
        /\ ~req[r].isHit /\ req[r].embedding = req[r].provider

\* C5: a lookup that finds an entry returns the stored vector with cached = true
\* without calling the provider, also when recording the hit fails.
C5_HitReturnsStored ==
  \A r \in Slots :
    (req[r].lookup = "hit" /\ (Returned(r) \/ Done(r)))
    => /\ Returned(r)
       /\ req[r].isHit
       /\ req[r].nEmbed = 0
       /\ IsSome(req[r].entry)
       /\ req[r].embedding = Some(Get(req[r].entry).embedding)

\* a hit whose stats update failed was returned
C5_Witness ==
  \E r \in Slots :
    /\ req[r].lookup = "hit" /\ Returned(r) /\ req[r].storeFault
    /\ req[r].isHit /\ req[r].nEmbed = 0

\* the getEmbeddingWithCache calls so far: a miss, then a hit for the same text, both
\* with their stats update stored
MissThenHit ==
  /\ Len(embedLog) = 2
  /\ ~embedLog[1].cached /\ embedLog[1].statsOk
  /\ embedLog[2].cached /\ embedLog[2].statsOk
  /\ embedLog[1].question = embedLog[2].question

\* C6: from no stats record, a miss and then a hit for the same normalized text
\* leave totalQueries = 2, cacheHits = 1, cacheMisses = 1, hitRate = 0.5.
C6_MissThenHitStats ==
  MissThenHit =>
    LET stats == KVRead(statsKV, StatsKey, now)
    IN /\ IsSome(stats)
       /\ Get(stats).totalQueries = 2
       /\ Get(stats).cacheHits = 1
       /\ Get(stats).cacheMisses = 1
       /\ 2 * Get(stats).hitRate[1] = Get(stats).hitRate[2]

C6_Witness == MissThenHit /\ IsSome(KVRead(statsKV, StatsKey, now))

\* C7: when the embedding provider or the index query fails, the request ends with
\* one 500 response with success = false and the generic message, the failed call
\* is made once, no decision is returned and no trackQuery is dispatched.
C7_CorePathFailure ==
  \A r \in Slots :
    /\ (IsSome(req[r].provider) /\ Get(req[r].provider) \notin Vectors)
         => /\ Done(r) /\ req[r].resp = InternalError
            /\ req[r].nEmbed = 1 /\ req[r].nSearch = 0 /\ req[r].tracked = <<>>
    /\ (IsSome(req[r].results) /\ ~Get(req[r].results).ok)
         => /\ Done(r) /\ req[r].resp = InternalError
            /\ req[r].nEmbed <= 1 /\ req[r].nSearch = 1 /\ req[r].tracked = <<>>

\* the index query failed after a cache hit
C7_Witness ==
  \E r \in Slots :
    /\ IsSome(req[r].results) /\ ~Get(req[r].results).ok
    /\ req[r].isHit /\ req[r].resp.status = 500

ResponseClass(resp) ==
  IF IsDirect(resp) THEN "success" ELSE IF IsFuzzy(resp) THEN "fuzzy" ELSE "failure"

\* C9: a request that returns a decision dispatches exactly one trackQuery call, of
\* the decision's class; a validation error or an internal error dispatches none.
C9_OneMetricPerDecision ==
  \A r \in Slots :
    Done(r) =>
      IF req[r].resp.status = 200
      THEN /\ Len(req[r].tracked) = 1
           /\ OutcomeClass(req[r].tracked[1]) = ResponseClass(req[r].resp)
      ELSE req[r].tracked = <<>>

\* a Fuzzy decision with its one metric
C9_Witness ==
  \E r \in Slots :
    /\ Done(r) /\ IsFuzzy(req[r].resp)
    /\ Len(req[r].tracked) = 1 /\ req[r].tracked[1].fuzzy

\* the question is missing, empty or made of whitespace only
BlankQuestion(q) ==
  \/ q.t = "undefined"
  \/ q.t = "string" /\ \A i \in 1..Len(q.v) : q.v[i] \in Spaces

\* C10: a request whose question is missing, empty or whitespace-only gets the 400
\* validation error and causes no normalization, cache lookup, embedding call,
\* index query or metric write.
C10_ValidationError ==
  \A r \in Slots :
    (req[r].pc # "idle" /\ BlankQuestion(req[r].question))
    => /\ req[r].nNormalize = 0 /\ req[r].nCacheGet = 0 /\ req[r].nEmbed = 0
       /\ req[r].nSearch = 0 /\ req[r].tracked = <<>>
       /\ (Done(r) /\ req[r].handlerRan) => req[r].resp = ValidationError

\* a whitespace-only question was answered 400
C10_Witness ==
  \E r \in Slots :
    /\ Done(r) /\ req[r].question.t = "string" /\ Len(req[r].question.v) > 0
    /\ BlankQuestion(req[r].question)
    /\ req[r].resp.status = 400

\* --- the rate limiter against a fixed-window counter
\* The window of client c after the first i limiter outcomes: a request at or after
\* the window end (or the first one) opens a window of windowMs with count 1; a
\* request inside it is counted while fewer than N were admitted.
RECURSIVE WindowAfter(_, _)
WindowAfter(c, i) ==
  IF i = 0 THEN [count |-> 0, end |-> 0]
  ELSE LET prev == WindowAfter(c, i - 1)
           e == admitLog[i]
       IN IF e.ip # c THEN prev
          ELSE IF prev.count = 0 \/ e.now >= prev.end
               THEN [count |-> 1, end |-> e.now + windowMs]
               ELSE IF prev.count < maxRequests(env)
                    THEN [prev EXCEPT !.count = prev.count + 1]
                    ELSE prev

\* the i-th outcome is the one the fixed-window counter gives
ConformsAt(i) ==
  LET e == admitLog[i]
      prev == WindowAfter(e.ip, i - 1)
      open == prev.count > 0 /\ e.now < prev.end
  IN IF open /\ prev.count >= maxRequests(env)
     THEN e.outcome = "denied" /\ e.resetTime = prev.end
     ELSE /\ e.outcome = "admitted"
          /\ e.resetTime = IF open THEN prev.end ELSE e.now + windowMs

\* the stored record of every admitted client is the counter's window
StoredConforms ==
  \A i \in 1..Len(admitLog) :
    admitLog[i].outcome = "admitted"
    => LET c == admitLog[i].ip
           w == WindowAfter(c, Len(admitLog))
       IN c \in DOMAIN rlKV /\ rlKV[c].v = [count |-> w.count, resetTime |-> w.end]

\* a 429 carries the remaining window time in seconds, rounded up, at least 1
RetryAfterConforms ==
  \A r \in Slots :
    (Done(r) /\ req[r].resp.status = 429)
    => /\ admitLog # <<>>
       /\ LET e == admitLog[Len(admitLog)]
          IN /\ e.outcome = "denied" /\ e.ip = req[r].ip
             /\ req[r].resp.retryAfter >= 1
             /\ (req[r].resp.retryAfter - 1) * 1000 < e.resetTime - e.now
             /\ e.resetTime - e.now <= req[r].resp.retryAfter * 1000

FixedWindow ==
  /\ \A i \in 1..Len(admitLog) : ConformsAt(i)
  /\ StoredConforms
  /\ RetryAfterConforms

StoreAnswered == \A i \in 1..Len(admitLog) : admitLog[i].outcome # "error"

\* every get of the limiter was served at the time the limiter read the clock
ReadAtOnce == \A i \in 1..Len(admitLog) : admitLog[i].readAt = admitLog[i].now

C3_FailOpen ==
  \A r \in Slots :
    (Done(r) /\ req[r].rlFault # "none") => req[r].handlerRan

\* the binding is missing and the request reached the handler
C3_MissingBindingAdmits ==
  \A r \in Slots :
    (Done(r) /\ req[r].rlFault = "nobinding") => req[r].handlerRan

\* --- auxiliary store operations and the response
\* the response of a request from its question and the text normalizeTurkish made
\* of it, the outcome of its cache lookup, the provider's answer and the index's
\* answer alone (none while the index has not answered a request that has its
\* embedding)
ResponseOf(rec) ==
  IF Validate(rec.question) = "throws" THEN InternalError
  ELSE IF Validate(rec.question) = "invalid" THEN ValidationError
  ELSE IF rec.lookup # "hit" /\ (~IsSome(rec.provider) \/ EmbeddingFails(Get(rec.provider)))
  THEN InternalError
  ELSE IF ~IsSome(rec.results) THEN NoResponse
  ELSE IF ~Get(rec.results).ok THEN InternalError
  ELSE AskOutcome(MapSeq(Get(rec.results).matches, ToSearchResult),
                  rec.normalized, rec.lookup = "hit",
                  now, rec.startTime, env).resp

\* C8: for a fixed question, provider answer and index answer the response (status
\* and body) is the same whether the cache entry write, the cache stats read and
\* write and the metrics reads and writes succeed or fail.
C8_AuxiliaryFailuresUnseen ==
  \A r \in Slots : Done(r) => req[r].resp = ResponseOf(req[r])

\* a miss answered 200 although its stats update, its cache entry write and its
\* metrics write all failed
C8_Witness ==
  \E r \in Slots :
    /\ Done(r) /\ req[r].resp.status = 200
    /\ req[r].lookup = "miss" /\ req[r].storeFault
    /\ Len(req[r].tracked) = 1
    /\ tasks = <<>> /\ cacheKV = EmptyKV /\ dailyKV = EmptyKV /\ statsKV = EmptyKV

\* --- the three variants of a 200 response
DirectFields ==
  {"status", "success", "answer", "confidence", "matchedQuestion", "category", "suggestions"}
FuzzyFields ==
  {"status", "success", "fuzzy", "confidence", "suggestedQuestion", "answer", "category",
   "message", "suggestions"}
NoMatchFields == {"status", "success", "message", "suggestions"}

BestResult(r) == ToSearchResult(Get(req[r].results).matches[1])

\* C11: every 200 response is exactly one of the three variants, for any threshold
\* values: success = true never comes with fuzzy = true, an answer with success =
\* true is returned only for Direct, and a response with fuzzy = true carries the
\* best candidate's question as suggestedQuestion and that candidate's answer.
C11_ExclusiveVariants ==
  \A r \in Slots :
    (Done(r) /\ req[r].resp.status = 200)
    => LET resp == req[r].resp
       IN /\ \/ DOMAIN resp = DirectFields /\ resp.success
             \/ DOMAIN resp = FuzzyFields /\ ~resp.success /\ resp.fuzzy
             \/ DOMAIN resp = NoMatchFields /\ ~resp.success
          /\ ~(resp.success /\ Has(resp, "fuzzy"))
          /\ (resp.success /\ Has(resp, "answer"))
             => /\ BestScore(r) >= primaryThreshold(env)
                /\ resp.answer = BestResult(r).faq.answer
                /\ resp.matchedQuestion = BestResult(r).faq.question
          /\ Has(resp, "fuzzy")
             => /\ resp.suggestedQuestion = BestResult(r).faq.question
                /\ resp.answer = BestResult(r).faq.answer

\* a score of 0.65 between the default thresholds was answered with the
\* candidate's question as suggestedQuestion
C11_Witness ==
  \E r \in Slots :
    /\ Done(r) /\ req[r].resp.status = 200
    /\ ~IsSome(env.FUZZY_THRESHOLD) /\ ~IsSome(env.SIMILARITY_THRESHOLD)
    /\ Has(req[r].resp, "fuzzy") /\ BestScore(r) = 65
    /\ req[r].resp.suggestedQuestion = BestResult(r).faq.question

\* C12: in every state in which the decision engine runs, fuzzyThreshold <=
\* primaryThreshold holds for the thresholds it uses.
C12_ThresholdOrder ==
  \A r \in Slots :
    (Answered(r) /\ req[r].resp.status = 200)
    => fuzzyThreshold(env) <= primaryThreshold(env)

\* --- raising the fuzzy threshold
\* the response to the same request in the same environment but for FUZZY_THRESHOLD
WithFuzzyThreshold(r, f) ==
  AskOutcome(MapSeq(Get(req[r].results).matches, ToSearchResult), req[r].normalized,
             req[r].isHit, now, req[r].startTime,
             [env EXCEPT !.FUZZY_THRESHOLD = Some(f)]).resp

\* the values above the score s the fuzzy threshold is raised to
RaisedAbove(s) == {f \in {s + 1, s + 10, 100} : f > fuzzyThreshold(env)}

Decided(r) == Answered(r) /\ Len(Get(req[r].results).matches) > 0

SearchResults(r) == MapSeq(Get(req[r].results).matches, ToSearchResult)

\* the results from the a-th to the b-th (1-based, b capped by the length) as
\* suggestions
SuggestionsOf(results, a, b) ==
  LET hi == IF b < Len(results) THEN b ELSE Len(results)
  IN [i \in 1..(IF hi < a THEN 0 ELSE hi - a + 1) |-> ToSuggestion(results[a + i - 1])]

\* C14: the alternates are, for Direct, all results after the first in index order
\* (at most topK-1); for Fuzzy, the second and third results only; for NoMatch, the
\* first up to three results including the best; for an empty result list, NoMatch
\* with no suggestion. Direct and Fuzzy alternates never contain the best candidate.
C14_Alternates ==
  \A r \in Slots :
    (Answered(r) /\ req[r].resp.status = 200)
    => LET results == SearchResults(r)
           resp == req[r].resp
           n == Len(results)
       IN /\ n = 0 => IsNoMatch(resp) /\ resp.suggestions = <<>>
          /\ IsDirect(resp)
             => /\ resp.suggestions = SuggestionsOf(results, 2, n)
                /\ Len(resp.suggestions) <= topK(env) - 1
          /\ IsFuzzy(resp)
             => /\ resp.suggestions = SuggestionsOf(results, 2, 3)
                /\ Len(resp.suggestions) <= 2
          /\ (IsNoMatch(resp) /\ n > 0)
             => /\ resp.suggestions = SuggestionsOf(results, 1, 3)
                /\ resp.suggestions[1].id = results[1].faq.id
          /\ (IsDirect(resp) \/ IsFuzzy(resp))
             => \A i \in 1..Len(resp.suggestions) :
                  resp.suggestions[i].id # results[1].faq.id

\* a Fuzzy decision over five results with two alternates
C14_Witness ==
  \E r \in Slots :
    /\ Answered(r) /\ IsFuzzy(req[r].resp)
    /\ Len(SearchResults(r)) = 5
    /\ Len(req[r].resp.suggestions) = 2

\* a Direct decision over five results with four alternates
C14_WitnessDirect ==
  \E r \in Slots :
    /\ Answered(r) /\ IsDirect(req[r].resp)
    /\ Len(SearchResults(r)) = 5
    /\ Len(req[r].resp.suggestions) = 4

\* --- normalizeTurkish
Called(r) == req[r].nNormalize = 1 /\ req[r].resp = NoResponse /\ req[r].pc = "done"

IsTableValue(text) == \E i \in 1..Len(TURKISH_TYPO_MAP) : TURKISH_TYPO_MAP[i][2] = text

\* C15: normalizeTurkish(normalizeTurkish(x)) = normalizeTurkish(x) for every x, and
\* every replacement value of the typo table is a fixed point of normalizeTurkish.
C15_Idempotent ==
  /\ (Called(1) /\ Called(2)) => req[2].normalized = req[1].normalized
  /\ (Called(1) /\ req[1].question.t = "string" /\ IsTableValue(req[1].question.v))
     => req[1].normalized = req[1].question.v

\* a typo between punctuation was corrected, and the corrected text was
\* normalized again
C15_Witness ==
  /\ Called(1) /\ Called(2)
  /\ req[1].question = Str(<<" ", "!", "s", "i", "f", "r", "e", "m", "i", "?", "\t">>)
  /\ req[1].normalized = <<"s.", "i", "f", "r", "e", "m", "i", "?">>
  /\ req[2].question = Str(req[1].normalized)

NoSpaceRun(text) ==
  /\ text # <<>> => text[1] \notin Spaces /\ text[Len(text)] \notin Spaces
  /\ \A i \in 1..(Len(text) - 1) : ~(text[i] \in Spaces /\ text[i + 1] \in Spaces)

\* C16: normalizeTurkish returns the empty string for an empty, null, undefined or
\* non-string input, and for every string a lowercase string without leading or
\* trailing space and without a run of two or more spaces.
C16_Total ==
  \A r \in Slots :
    Called(r)
    => LET x == req[r].question
           y == req[r].normalized
       IN /\ (x.t # "string" \/ x.v = <<>>) => y = <<>>
          /\ ToLowerCase(y) = y
          /\ NoSpaceRun(y)

\* a text of a capital dotted I, an underscore and an S came back as "i s"
C16_Witness ==
  /\ Called(1)
  /\ req[1].question = Str(<<"I.", "_", "S">>)
  /\ req[1].normalized = <<"i", " ", "s">>

\* a number came back as the empty string
C16_WitnessNumber ==
  Called(1) /\ req[1].question = Num(5) /\ req[1].normalized = <<>>

\* --- clearCache
ClearPcs == {"clear_list", "clear_delete", "clear_stats"}

IsClearRun(rec) == rec.pc = "done" /\ Has(rec.resp, "cleared")

CacheSize == Cardinality(KVList(cacheKV, now))

\* slot r runs clearCache right after the clearCache run of slot p, which no store
\* failure cut short
RunsRightAfter(r, p) ==
  /\ req[r].pc \in ClearPcs
  /\ IsClearRun(req[p]) /\ ~req[p].storeFault
  /\ req[r].seq = req[p].seq + 1

IsStatsRun(rec) == rec.pc = "done" /\ Has(rec.resp, "enabled")

\* C20: GET /api/cache/stats answers enabled = false only when the cache store is not
\* configured, and enabled = true with the counters whenever it is configured.
C20_EnabledIffConfigured ==
  \A r \in Slots :
    IsStatsRun(req[r]) /\ ~req[r].storeFault
    => (req[r].resp.enabled <=> env.EMBEDDING_CACHE_KV)

\* the counters of a stored record are answered: 1 hit in 3 queries is 33.33%
C20_StatsAnswered ==
  \E r \in Slots :
    /\ IsStatsRun(req[r]) /\ req[r].resp.enabled
    /\ req[r].resp.stats.totalQueries = 3 /\ req[r].resp.stats.hitRate = 3333
    /\ req[r].resp.stats.cacheSize = 3

\* --- overlapping updates of the stats record and of a rate-limit window
StoredCacheStats == KVRead(statsKV, StatsKey, now)

\* C18: without a clearCache in between, totalQueries, cacheHits and cacheMisses of
\* the stored stats record never decrease, however getEmbeddingWithCache calls overlap.
C18_CountersMonotonic ==
  [][(IsSome(StoredCacheStats) /\ IsSome(StoredCacheStats'))
     => /\ Get(StoredCacheStats').totalQueries >= Get(StoredCacheStats).totalQueries
        /\ Get(StoredCacheStats').cacheHits >= Get(StoredCacheStats).cacheHits
        /\ Get(StoredCacheStats').cacheMisses >= Get(StoredCacheStats).cacheMisses]_vars

\* C19: while a client's stored window has not reached its end time, no step stores
\* a window with another end time for that client or puts the count back to 1.
C19_NoMidWindowReset ==
  [][\A ip \in DOMAIN rlKV :
       (Live(rlKV[ip], now) /\ now' < rlKV[ip].v.resetTime)
       => /\ ip \in DOMAIN rlKV'
          /\ rlKV'[ip].v.resetTime = rlKV[ip].v.resetTime
          /\ rlKV'[ip].v.count = 1 => rlKV[ip].v.count = 1]_vars

\* --- the middleware
Ran(r, mw) == req[r].pc = "done" /\ req[r].mw = mw

\* the request carries a key: the header is there and not empty
CarriesKey(rec) == IsSome(rec.apiKey) /\ Get(rec.apiKey) # <<>>

\* key is one of the comma-separated entries of the setting
Member(key, setting) == IsSome(setting) /\ Includes(Split(Get(setting)), key)

\* C21: adminApiKeyAuth calls next if and only if the request carries a key that is
\* a member of ADMIN_API_KEYS; a missing key gives 401 and any other key 403, with
\* no call of next.
C21_AdminKeyOnly ==
  \A r \in Slots :
    Ran(r, "adminApiKeyAuth")
    => LET rec == req[r]
           valid == CarriesKey(rec) /\ Member(Get(rec.apiKey), env.ADMIN_API_KEYS)
       IN /\ rec.nNext = (IF valid THEN 1 ELSE 0)
          /\ valid => rec.resp = NoResponse
          /\ ~CarriesKey(rec) => rec.resp.status = 401
          /\ (CarriesKey(rec) /\ ~valid) => rec.resp.status = 403

\* a key that is on the public list only was answered 403
C21_Witness ==
  /\ Ran(1, "adminApiKeyAuth") /\ req[1].apiKey = Some(<<"b">>)
  /\ env.PUBLIC_API_KEYS = Some(<<"b">>) /\ env.ADMIN_API_KEYS = Some(<<"a", ",", " ">>)
  /\ req[1].resp.status = 403 /\ req[1].nNext = 0

\* the second key of the admin list was let through
C21_WitnessAccepted ==
  /\ Ran(1, "adminApiKeyAuth") /\ req[1].apiKey = Some(<<"b">>)
  /\ env.ADMIN_API_KEYS = Some(<<"a", ",", "b">>)
  /\ req[1].resp = NoResponse /\ req[1].nNext = 1

\* C22: publicApiKeyAuth answers 401 without a key; with PUBLIC_API_KEYS configured
\* it answers 403 to a key not in the list and accepts a key in the list; without
\* it, it accepts every key; next is called once on acceptance, never on rejection.
C22_PublicKey ==
  \A r \in Slots :
    Ran(r, "publicApiKeyAuth")
    => LET rec == req[r]
           accepted == rec.resp = NoResponse
       IN /\ ~CarriesKey(rec) => rec.resp.status = 401
          /\ (CarriesKey(rec) /\ IsSome(env.PUBLIC_API_KEYS))
             => IF Member(Get(rec.apiKey), env.PUBLIC_API_KEYS) THEN accepted
                ELSE rec.resp.status = 403
          /\ (CarriesKey(rec) /\ ~IsSome(env.PUBLIC_API_KEYS)) => accepted
          /\ rec.nNext = (IF accepted THEN 1 ELSE 0)

\* a key was let through although no list is configured
C22_Witness ==
  /\ Ran(1, "publicApiKeyAuth") /\ req[1].apiKey = Some(<<"a">>)
  /\ env.PUBLIC_API_KEYS = Absent
  /\ req[1].resp = NoResponse /\ req[1].nNext = 1

\* a key that is not on the configured list was answered 403
C22_WitnessRefused ==
  /\ Ran(1, "publicApiKeyAuth") /\ req[1].apiKey = Some(<<"a">>)
  /\ env.PUBLIC_API_KEYS = Some(<<"b">>)
  /\ req[1].resp.status = 403 /\ req[1].nNext = 0

\* C23: for an Origin that is not in ALLOWED_ORIGINS, a list without '*', the
\* response carries no Access-Control-Allow-Origin header, whatever the method.
C23_NoCorsForDisallowed ==
  \A r \in Slots :
    (Ran(r, "corsMiddleware")
       /\ ~IsAllowed(IF NoHeader(req[r].origin) THEN <<>> ELSE Get(req[r].origin), env))
    => AllowOrigin \notin DOMAIN ResponseHeaders(req[r])

\* C24: with WHITELISTED_IPS configured with at least one address, ipWhitelist calls
\* next only for a client IP of the list and answers every other request 403.
C24_WhitelistOnly ==
  \A r \in Slots :
    (Ran(r, "ipWhitelist") /\ IsSome(env.WHITELISTED_IPS)
       /\ \E i \in 1..Len(Split(Get(env.WHITELISTED_IPS))) :
            Split(Get(env.WHITELISTED_IPS))[i] # <<>>)
    => LET rec == req[r]
           listed == IsSome(rec.ipHeader) /\ Member(Get(rec.ipHeader), env.WHITELISTED_IPS)
       IN IF listed THEN rec.nNext = 1 /\ rec.resp = NoResponse
          ELSE rec.nNext = 0 /\ rec.resp.status = 403

\* --- the whole pipeline
\* the step of the pipeline a request is suspended in or has finished
StageOf(rec) ==
  CASE rec.pc \in {"rl_get", "rl_put"} -> 1
    [] rec.pc = "body" -> 2
    [] rec.pc = "cache_get" -> 3
    [] rec.pc \in {"embed", "stats_get", "stats_put"} -> 4
    [] rec.pc = "search" -> 5
    [] OTHER -> 6

\* the limiter's last outcome is the admission of this request, and its count is stored
CountedBy(rec, log, kv) ==
  /\ Len(log) > 0
  /\ log[Len(log)].outcome = "admitted" /\ log[Len(log)].now = rec.rlNow
  /\ IsSome(KVRead(kv, rec.ip, now))
  /\ Get(KVRead(kv, rec.ip, now)).count = Get(rec.rlWrite).count

\* C25: within one /api/ask request the steps run in order, one at a time: the
\* rate-limit check, validation and normalization, the cache lookup, at most one
\* provider call and only when the lookup did not hit, one index query, the decision
\* and the response; a request refused for an empty question was counted by the
\* limiter before.
C25_StepOrder ==
  [][\A r \in Slots :
       LET a == req[r]
           b == req'[r]
       IN (a.pc \notin {"idle", "done"})
          => /\ StageOf(b) >= StageOf(a)
             /\ b.handlerRan => CountedBy(b, admitLog', rlKV')
             /\ b.nNormalize > a.nNormalize
                => a.pc = "body" /\ a.handlerRan /\ a.nNormalize = 0
             /\ b.nCacheGet > a.nCacheGet
                => a.nCacheGet = 0 /\ b.nNormalize = 1 /\ a.nEmbed = 0 /\ a.nSearch = 0
             /\ b.nEmbed > a.nEmbed
                => /\ a.pc = "cache_get" /\ a.nEmbed = 0 /\ a.nSearch = 0
                   /\ b.lookup \in {"miss", "fault"} /\ ~b.isHit
             /\ b.nSearch > a.nSearch
                => /\ a.pc \in {"stats_get", "stats_put"} /\ a.nSearch = 0
                   /\ IsSome(a.embedding) /\ a.nCacheGet = 1
                   /\ a.nEmbed = (IF a.isHit THEN 0 ELSE 1)
             /\ (b.pc = "done" /\ b.resp.status = 200)
                => a.pc = "search" /\ b.nSearch = 1
             /\ b.resp = ValidationError
                => a.pc = "body" /\ b.nNormalize = 0 /\ CountedBy(b, admitLog', rlKV')]_vars

\* a request was answered from a cache hit: one lookup, no provider call, one query
C25_Witness ==
  /\ req[1].pc = "done" /\ req[1].resp.status = 200 /\ req[1].isHit
  /\ req[1].nCacheGet = 1 /\ req[1].nEmbed = 0 /\ req[1].nSearch = 1

\* a request with an empty question was answered 400 after the limiter counted it
C25_WitnessInvalid ==
  /\ req[1].pc = "done" /\ req[1].resp = ValidationError
  /\ IsSome(KVRead(rlKV, req[1].ip, now)) /\ Get(KVRead(rlKV, req[1].ip, now)).count = 2

InFlight(rec) == rec.pc \notin {"idle", "done"}

\* C26: the cache-entry write and the metrics write are detached, and a request the
\* limiter admitted always ends with one response when the stores, the provider and
\* the index answer or fail: no response while it runs, a response at its end, and
\* that response stays.
C26_OneResponse ==
  /\ [](\A r \in Slots : /\ InFlight(req[r]) => req[r].resp = NoResponse
                         /\ req[r].pc = "done" => req[r].resp # NoResponse)
  /\ [][\A r \in Slots : (req[r].pc = "done" /\ req'[r].pc = "done")
                           => req'[r].resp = req[r].resp]_vars
  /\ \A r \in Slots : (req[r].handlerRan /\ InFlight(req[r])) ~> (req[r].pc = "done")

\* the answer was returned while the cache-entry write and the metrics write of the
\* same request had not started
C26_Witness ==
  /\ req[1].pc = "done" /\ req[1].resp.status = 200 /\ ~req[1].isHit
  /\ \E i, j \in 1..Len(tasks) :
       /\ tasks[i].kind = "store" /\ tasks[i].key = Get(req[1].cacheKey)
       /\ tasks[j].kind = "track" /\ tasks[j].pc = "daily_get"
  /\ ~IsSome(KVRead(cacheKV, Get(req[1].cacheKey), now))
  /\ ~IsSome(KVRead(recentKV, RecentKey, now))

\* --- overlapping requests: what is lost and what is kept
\* totalQueries of the stored stats record (0 when there is none)
StoredTotal == IF IsSome(StoredCacheStats) THEN Get(StoredCacheStats).totalQueries ELSE 0

\* the getEmbeddingWithCache calls that have started a stats update: those that
\* returned and those suspended in updateCacheStats
StartedUpdates ==
  Len(embedLog) + Cardinality({r \in Slots : req[r].pc \in {"stats_get", "stats_put"}})

\* no update read the stats record while another call was between its read and its
\* write
OneAfterTheOther == \A k \in 1..Len(embedLog) : ~embedLog[k].raced

\* C27: without clearCache, totalQueries never exceeds the number of
\* getEmbeddingWithCache calls that have started a stats update; it equals the
\* number of calls when they run one after the other; and an update leaves
\* totalQueries at what it had read plus 1, so two overlapping calls that read the
\* same record add 1 together.
C27_NeverInvented ==
  /\ [](env.EMBEDDING_CACHE_KV
        => /\ StoredTotal <= StartedUpdates
           /\ OneAfterTheOther => StoredTotal = Len(embedLog))
  /\ [][\A r \in Slots :
          (req[r].pc = "stats_put" /\ req'[r].pc # "stats_put")
          => /\ StoredTotal' = Get(req[r].statsWrite).totalQueries
             /\ \A o \in Slots :
                  (o # r /\ req[o].pc = "stats_put"
                     /\ Get(req[o].statsWrite).totalQueries
                          = Get(req[r].statsWrite).totalQueries)
                  => StoredTotal' = Get(req'[o].statsWrite).totalQueries]_vars

\* two calls that overlapped have both stored their update: the total is 1
C27_Witness ==
  /\ Len(embedLog) = 2 /\ embedLog[2].raced
  /\ embedLog[1].statsOk /\ embedLog[2].statsOk
  /\ \A r \in Slots : req[r].pc \notin {"stats_get", "stats_put"}
  /\ StoredTotal = 1

\* two calls one after the other have both been counted
C27_WitnessSerial ==
  /\ Len(embedLog) = 2 /\ OneAfterTheOther /\ StoredTotal = 2

\* the requests the limiter admitted into the window that ends at resetTime
AdmittedInto(resetTime) ==
  {k \in 1..Len(admitLog) :
     admitLog[k].outcome = "admitted" /\ admitLog[k].resetTime = resetTime}

\* C28: the limiter's get and put are not atomic: a request that read a count under
\* the limit is admitted and stores that count plus 1 whatever was stored meanwhile,
\* so overlapping requests can be admitted beyond the limit in one window, while the
\* stored count never exceeds the limit.
C28_CountWithinLimit ==
  /\ [](\A ip \in DOMAIN rlKV : rlKV[ip].v.count <= maxRequests(env))
  /\ [][\A r \in Slots :
          (req[r].pc = "rl_put" /\ req'[r].pc # "rl_put")
          => /\ req'[r].handlerRan
             /\ rlKV'[req[r].ip].v.count = Get(req[r].rlWrite).count
             /\ \A o \in Slots :
                  (o # r /\ req[o].pc = "rl_put" /\ req[o].rlWrite = req[r].rlWrite)
                  => /\ req'[o].pc = "rl_put"
                     /\ rlKV'[req[r].ip].v.count = Get(req[o].rlWrite).count]_vars

\* with limit 2, three requests were admitted into one window and the count is 2
C28_Witness ==
  /\ env.RATE_LIMIT_MAX = Some(2)
  /\ \E ip \in DOMAIN rlKV :
       /\ rlKV[ip].v.count = 2
       /\ Cardinality(AdmittedInto(rlKV[ip].v.resetTime)) = 3

\* --- admissions in any 60 seconds
\* the admissions of the client of the i-th outcome whose clock reading lies in the
\* 60 seconds that start at the i-th outcome's
AdmittedWithin(i) ==
  {k \in 1..Len(admitLog) :
     /\ admitLog[k].outcome = "admitted" /\ admitLog[k].ip = admitLog[i].ip
     /\ admitLog[i].now <= admitLog[k].now /\ admitLog[k].now <= admitLog[i].now + windowMs}

AtMostTwiceTheLimit ==
  \A i \in 1..Len(admitLog) : Cardinality(AdmittedWithin(i)) <= 2 * maxRequests(env)

StoredRecent ==
  IF IsSome(KVRead(recentKV, RecentKey, now)) THEN Get(KVRead(recentKV, RecentKey, now))
  ELSE <<>>

StoredDaily == KVRead(dailyKV, Today(now), now)

\* the list holds the calls' metrics newest first, then the metrics it started with,
\* cut at RecentMax
NewestFirst(calls) ==
  \A k \in 1..Len(StoredRecent) :
    StoredRecent[k] = IF k <= Len(calls) THEN calls[Len(calls) - k + 1]
                      ELSE OldMetric(k - Len(calls))

\* C30: however trackQuery calls overlap, the stored recent list holds at most 100
\* metrics; after calls that did not overlap it holds the most recent ones, newest
\* first, and the day's record counts every call; a trackQuery's put to the day's
\* record stores its metric there and its put to the recent list puts the metric at
\* the head.
C30_RecentList ==
  /\ [](Len(StoredRecent) <= RecentMax)
  /\ []((~req[1].overlapped /\ tasks = <<>> /\ req[1].tracked # <<>>)
        => /\ NewestFirst(req[1].tracked)
           /\ Len(StoredRecent) >= Len(req[1].tracked)
           /\ IsSome(StoredDaily)
           /\ Get(StoredDaily).totalQueries = Len(req[1].tracked))
  /\ [][/\ dailyKV' # dailyKV
           => \E i \in 1..Len(tasks) :
                /\ tasks[i].pc = "daily_put" /\ tasks'[i].pc = "recent_get"
                /\ LET daily == Get(StoredDaily')
                   IN /\ daily.totalQueries = Len(daily.responseTimesMs)
                      /\ daily.responseTimesMs[Len(daily.responseTimesMs)]
                           = tasks[i].metric.responseTimeMs
        /\ recentKV' # recentKV
           => \E i \in 1..Len(tasks) :
                /\ tasks[i].pc = "recent_put" /\ tasks' = RemoveAt(tasks, i)
                /\ StoredRecent'[1] = tasks[i].metric]_vars

\* two calls one after the other on a full list: the two are at its head and the
\* list still holds 100
C30_Witness ==
  /\ ~req[1].overlapped /\ tasks = <<>> /\ Len(req[1].tracked) = 2
  /\ Len(StoredRecent) = RecentMax
  /\ StoredRecent[1] = req[1].tracked[2] /\ StoredRecent[2] = req[1].tracked[1]
  /\ StoredRecent[RecentMax] = OldMetric(RecentMax - 2)

\* calls that overlapped on a full list: a metric is missing, the list holds 100
C30_WitnessOverlap ==
  /\ req[1].overlapped /\ tasks = <<>> /\ Len(req[1].tracked) = 2
  /\ Len(StoredRecent) = RecentMax
  /\ StoredRecent[2] = OldMetric(1)

\* --- trackQuery around midnight
\* trackQuery calls that may overlap, with the metrics store alone, starting half a
\* second before the first day ends; every store operation succeeds and the clock
\* moves between any two steps
InitMidnight ==
  /\ env = EnvOf(FALSE, FALSE, TRUE, Absent, Absent, Absent, Absent)
  /\ now = DayMs - 500 /\ ticks = 0 /\ started = 0
  /\ rlKV = EmptyKV /\ cacheKV = EmptyKV /\ statsKV = EmptyKV
  /\ dailyKV = EmptyKV /\ recentKV = EmptyKV
  /\ req = [r \in Slots |-> IdleReq]
  /\ tasks = <<>> /\ admitLog = <<>> /\ embedLog = <<>>

NextMidnight ==
  \/ \E metric \in TrackInputs(started + 1) : TrackQueryStart(1, metric, MaxTrackCalls)
  \/ \E i \in 1..Len(tasks) :
       \/ TrackDailyGet(i, TRUE)
       \/ TrackDailyPut(i, TRUE)
       \/ TrackRecentGet(i, TRUE)
       \/ TrackRecentPut(i, TRUE)
  \/ \E d \in TickSteps : Tick(d)

SpecMidnight == InitMidnight /\ [][NextMidnight]_vars

\* the days whose aggregate a step writes
DaysWritten(before, after) ==
  {day \in DOMAIN after : day \notin DOMAIN before \/ after[day] # before[day]}

\* C31: the aggregate of a day is written only while that day is the current one:
\* no step stores the aggregate of a day that has already ended
C31_NoWriteAfterMidnight ==
  [][\A day \in DaysWritten(dailyKV, dailyKV') : Today(now) = day]_vars

\* --- the typo table and whole words
\* a letter or digit of the texts normalizeTurkish keeps, Turkish letters included
IsLetter(c) == (IsWordChar(c) /\ c # "_") \/ c \in {"c.", "g.", "i.", "o.", "s.", "u."}

\* typo stands at position p of s as a whole word: no letter before it, none after it
WholeWordAt(s, p, typo) ==
  /\ p + Len(typo) - 1 <= Len(s)
  /\ \A k \in 1..Len(typo) : s[p + k - 1] = typo[k]
  /\ p = 1 \/ ~IsLetter(s[p - 1])
  /\ p + Len(typo) > Len(s) \/ ~IsLetter(s[p + Len(typo)])

HasWholeWordTypo(s) ==
  \E i \in 1..Len(TURKISH_TYPO_MAP) : \E p \in 1..Len(s) :
    WholeWordAt(s, p, TURKISH_TYPO_MAP[i][1])

\* the text of steps 1 to 3 of normalizeTurkish, before the typo table is applied
BeforeTypos(text) == StripSpecial(CollapseSpaces(Trim(ToLowerCase(text))))

\* C32: a typo of the table is replaced only where it stands as a whole word: a text
\* in which no typo stands as a whole word, because every occurrence is continued by
\* a letter or a Turkish letter, comes back with its words unchanged
C32_WholeWordsOnly ==
  \A r \in Slots :
    (Called(r) /\ req[r].question.t = "string"
      /\ ~HasWholeWordTypo(BeforeTypos(req[r].question.v)))
    => req[r].normalized = Trim(CollapseSpaces(BeforeTypos(req[r].question.v)))

\* --- the life of a cache entry
\* two texts of 22 characters with the same first 20 characters and the same hash:
\* 31 * 115 + 101 = 31 * 109 + 287
LongPrefix == [i \in 1..KeyPrefixLen |-> "a"]
LongSe == LongPrefix \o <<"s", "e">>
LongMg == LongPrefix \o <<"m", "g.">>

LifecycleQuestions == {Str(Sifre), Str(LongSe), Str(LongMg)}

\* /api/ask requests one after the other with the cache store alone: every store
\* operation succeeds, nothing clears the cache, the clock stands still; the
\* detached cache write of a request runs on its own
InitLifecycle ==
  /\ InitStores
  /\ env = EnvOf(FALSE, TRUE, FALSE, Absent, Absent, Absent, Absent)

NextLifecycle ==
  \/ \E q \in LifecycleQuestions : Start(1, "", q, MaxLifecycleRequests)
  \/ Body(1)
  \/ CacheGet(1, TRUE)
  \/ \E a \in Vectors : Embed(1, a)
  \/ StatsGet(1, TRUE)
  \/ StatsPut(1, TRUE)
  \/ Search(1, [ok |-> TRUE, matches |-> <<Match(1, 82)>>])
  \/ \E i \in 1..Len(tasks) : StoreEntryPut(i, TRUE)

SpecLifecycle == InitLifecycle /\ [][NextLifecycle]_vars

\* a call for the text q has returned after a cache miss
MissedBefore(q) == \E k \in 1..Len(embedLog) : embedLog[k].question = q /\ ~embedLog[k].cached

\* a storeCacheEntry for the key has been dispatched and its put has not settled
WritePending(key) == \E i \in 1..Len(tasks) : tasks[i].kind = "store" /\ tasks[i].key = key

\* the cache lookup of slot r settles in this step
LookupSettles(r) == req[r].pc = "cache_get" /\ req'[r].pc # "cache_get"

\* the statement of C33 as it was given: after a miss for q whose response was
\* returned, the next lookup for q is a hit
C33_HitAfterMiss ==
  [][\A r \in Slots :
       (LookupSettles(r) /\ MissedBefore(req[r].normalized))
       => req'[r].isHit /\ req'[r].nEmbed = 0]_vars

\* C33: after a miss for q whose response was returned, a later lookup for q is a
\* hit and makes no provider call, once the cache write the miss dispatched has
\* settled; while that write is pending the lookup misses again
C33_HitAfterStoredMiss ==
  [][\A r \in Slots :
       (LookupSettles(r) /\ MissedBefore(req[r].normalized))
       => IF WritePending(Get(req[r].cacheKey))
          THEN req'[r].lookup \in {"hit", "miss"}
          ELSE /\ req'[r].isHit /\ req'[r].nEmbed = 0
               /\ req'[r].embedding = Some(Get(KVRead(cacheKV, Get(req[r].cacheKey), now)).embedding)]_vars

\* the second request for a text was answered from the cache after the first one
\* missed and its write settled
C33_Witness ==
  /\ started = 2 /\ Done(1) /\ req[1].isHit /\ req[1].nEmbed = 0
  /\ MissedBefore(req[1].normalized)
  /\ tasks = <<>>

\* the second request for a text missed too, while the write of the first was pending
C33_WitnessPending ==
  /\ started = 2 /\ req[1].pc = "embed" /\ req[1].lookup = "miss"
  /\ MissedBefore(req[1].normalized)
  /\ WritePending(Get(req[1].cacheKey))

\* --- the stats record under overlapping updates
\* the stats records of the store, expired or not
StoredStatsRecords == {statsKV[k].v : k \in DOMAIN statsKV}

StatsConsistent(stats) ==
  /\ stats.totalQueries = stats.cacheHits + stats.cacheMisses
  /\ stats.totalQueries >= 1
  /\ stats.hitRate = <<stats.cacheHits, stats.totalQueries>>

\* C34: every stats record in the store, and every record an update is about to
\* put, has totalQueries = cacheHits + cacheMisses, totalQueries >= 1 and
\* hitRate = cacheHits / totalQueries, however the updates interleave
C34_StatsConsistent ==
  /\ \A stats \in StoredStatsRecords : StatsConsistent(stats)
  /\ \A r \in Slots : IsSome(req[r].statsWrite) => StatsConsistent(Get(req[r].statsWrite))

\* two calls whose updates overlapped have both stored the record: one query of the
\* two is counted
C34_Witness ==
  /\ \A r \in Slots : Done(r)
  /\ \E k \in 1..Len(embedLog) : embedLog[k].raced /\ embedLog[k].statsOk
  /\ \E stats \in StoredStatsRecords : stats.totalQueries = 1

\* a miss and then a hit are counted in the stored record
C34_WitnessHitAndMiss ==
  \E stats \in StoredStatsRecords : stats.cacheHits = 1 /\ stats.cacheMisses = 1

\* --- the cache key
\* C35: a cache hit returns the embedding of an entry that was stored for exactly
\* the normalized text of the request
C35_HitForSameText ==
  \A r \in Slots :
    req[r].isHit => Get(req[r].entry).question = req[r].normalized

\* --- two clients at the rate limiter
\* the CF-Connecting-IP headers of two clients ("": none)
TwoClients == {"", "b"}

\* overlapping requests of two clients at the rate limiter, for a limit of
\* 1..MaxLimit: the store answers every operation, the clock stands still
InitRateClients ==
  /\ InitStores
  /\ env \in {EnvOf(TRUE, FALSE, FALSE, Some(n), Absent, Absent, Absent) : n \in 1..MaxLimit}

NextRateClients ==
  \E r \in Slots :
    \/ \E h \in TwoClients : Start(r, h, Str(<<>>), MaxRateRequests)
    \/ RlGet(r, TRUE)
    \/ RlPut(r, TRUE)
    \/ Body(r)

SpecRateClients == InitRateClients /\ [][NextRateClients]_vars

\* slot r's request takes a step inside rateLimiter
LimiterStep(r) == req[r].pc \in {"rl_get", "rl_put"} /\ req'[r] # req[r]

\* C36: a request the limiter denies leaves the rate-limit store as it was, and a
\* step of a request of one client decides from that client's record alone and
\* leaves the record of every other client as it was
C36_OwnRecordOnly ==
  [][\A r \in Slots :
       LimiterStep(r)
       => /\ req'[r].resp.status = 429 => rlKV' = rlKV
          /\ \A ip \in DOMAIN rlKV \ {req[r].ip} : ip \in DOMAIN rlKV' /\ rlKV'[ip] = rlKV[ip]
          /\ DOMAIN rlKV' \subseteq DOMAIN rlKV \cup {req[r].ip}
          /\ req'[r].pc = "rl_put"
             => req'[r].rlWrite = Some(RlNextRecord(KVRead(rlKV, req[r].ip, now), req[r].rlNow))
          /\ req[r].pc = "rl_get"
             => (req'[r].resp.status = 429
                   <=> RlDenies(KVRead(rlKV, req[r].ip, now), req[r].rlNow, env))]_vars

\* a request of one client was denied while the other client has a record of its own,
\* and the denied client's count stands at the limit
C36_Witness ==
  \E r \in Slots :
    /\ Done(r) /\ req[r].resp.status = 429
    /\ DOMAIN rlKV = {"unknown", "b"}
    /\ rlKV[req[r].ip].v.count = maxRequests(env)

\* --- clearCache while requests are in flight
\* /api/ask requests in slot 1 and DELETE /api/cache in slot 2, overlapping, with the
\* cache store alone: every store operation succeeds, the clock stands still, and no
\* /api/ask request starts once a clearCache has returned
InitClearRace ==
  /\ InitStores
  /\ env = EnvOf(FALSE, TRUE, FALSE, Absent, Absent, Absent, Absent)

NextClearRace ==
  \/ ~IsClearRun(req[2]) /\ Start(1, "", Str(Sifre), MaxOverlapRequests)
  \/ Body(1)
  \/ CacheGet(1, TRUE)
  \/ Embed(1, "v1")
  \/ StatsGet(1, TRUE)
  \/ StatsPut(1, TRUE)
  \/ Search(1, [ok |-> TRUE, matches |-> <<Match(1, 82)>>])
  \/ \E i \in 1..Len(tasks) : StoreEntryPut(i, TRUE)
  \/ ClearStart(2, MaxOverlapRequests)
  \/ ClearList(2, TRUE)
  \/ ClearDelete(2, TRUE)
  \/ ClearStats(2, TRUE)

SpecClearRace == InitClearRace /\ [][NextClearRace]_vars

\* C37: once clearCache has returned, and no /api/ask request starts after that, the
\* store holds no cache entry and no stats record
C37_StaysEmpty ==
  IsClearRun(req[2])
  => /\ KVList(cacheKV, now) = {}
     /\ ~IsSome(KVRead(statsKV, StatsKey, now))

\* --- questions that normalize to nothing
\* every character of the text is a space or is replaced by one in step 3 of
\* normalizeTurkish, so the normalized text is empty
OnlyStripped(text) == \A i \in 1..Len(text) : text[i] \in Spaces \/ ~IsKept(text[i])

\* C38: a string question whose normalized form is empty is answered with the
\* validation error, and the text handed to getEmbeddingWithCache is never empty
C38_EmptyIsValidationError ==
  \A r \in Slots :
    /\ req[r].nNormalize > 0 => req[r].normalized # <<>>
    /\ (Done(r) /\ req[r].handlerRan /\ req[r].question.t = "string"
         /\ OnlyStripped(req[r].question.v))
       => req[r].resp = ValidationError

\* --- publicApiKeyAuth in front of rateLimiter
\* rateLimiter up to its first await (part_002 line 136-145): with the store it
\* reads the clock and asks for the client's record, without it the handler starts
ReachLimiter(rec, e, t) ==
  IF e.RATE_LIMIT_KV THEN [rec EXCEPT !.pc = "rl_get", !.rlNow = t]
  ELSE EnterHandler([rec EXCEPT !.rlFault = "nobinding"], t)

\* mutant of AskPipeline: rateLimiter runs whatever publicApiKeyAuth answered
AskPipelineUnguarded(rec, e, t) == ReachLimiter(publicApiKeyAuth(rec, e), e, t)

\* app.use('/api/ask', publicApiKeyAuth); app.use('/api/ask', rateLimiter) (index.ts
\* line 53-55): rateLimiter is the next() of publicApiKeyAuth
AskPipeline(rec, e, t) ==
  LET authed == publicApiKeyAuth(rec, e)
  IN IF authed.nNext = 0 THEN authed ELSE ReachLimiter(authed, e, t)

\* a POST /api/ask arrives with an X-API-Key header, a CF-Connecting-IP header and a
\* question, and runs up to its first await or to the answer of publicApiKeyAuth
Arrive(r, key, header, q, max) ==
  /\ req[r].pc \in {"idle", "done"}
  /\ started < max
  /\ started' = started + 1
  /\ req' = [req EXCEPT ![r] =
               AskPipeline([IdleReq EXCEPT !.mw = "publicApiKeyAuth", !.apiKey = key,
                                           !.ip = ClientIp(header), !.question = q],
                           env, now)]
  /\ UNCHANGED <<env, now, ticks, rlKV, cacheKV, statsKV, dailyKV, recentKV, tasks,
                 admitLog, embedLog>>

\* /api/ask requests of one client one after the other through publicApiKeyAuth,
\* rateLimiter and the handler, with all three stores, a limit of 1 and a key list
\* that is unset or "a": every operation succeeds, the clock stands still
InitGate ==
  /\ InitStores
  /\ env \in {WithLists(EnvOf(TRUE, TRUE, TRUE, Some(1), Absent, Absent, Absent),
                        public, Absent, Absent, Absent) :
                public \in {Absent, Some(<<"a">>)}}

GateKeys == {Absent, Some(<<>>), Some(<<"a">>), Some(<<"b">>)}

NextGate ==
  \/ \E key \in GateKeys : Arrive(1, key, "", Str(Sifre), MaxPipelineRequests)
  \/ RlGet(1, TRUE)
  \/ RlPut(1, TRUE)
  \/ Body(1)
  \/ CacheGet(1, TRUE)
  \/ Embed(1, "v1")
  \/ StatsGet(1, TRUE)
  \/ StatsPut(1, TRUE)
  \/ Search(1, [ok |-> TRUE, matches |-> <<Match(1, 82)>>])
  \/ \E i \in 1..Len(tasks) :
       \/ StoreEntryPut(i, TRUE)
       \/ TrackDailyGet(i, TRUE)
       \/ TrackDailyPut(i, TRUE)
       \/ TrackRecentGet(i, TRUE)
       \/ TrackRecentPut(i, TRUE)

SpecGate == InitGate /\ [][NextGate]_vars

\* the request of the slot was refused by publicApiKeyAuth, by rateLimiter
AuthRefused(rec) == rec.resp.status \in {401, 403}
LimiterRefused(rec) == rec.resp.status = 429

\* the request never went past the middleware that refused it
StoppedAtAuth(rec) ==
  /\ rec.pc = "done" /\ rec.nNext = 0
  /\ rec.rlWrite = Absent /\ rec.rlFault = "none" /\ ~rec.handlerRan
StoppedAtLimiter(rec) ==
  /\ rec.pc = "done" /\ rec.nNext = 1 /\ ~rec.handlerRan
  /\ rec.nNormalize = 0 /\ rec.nCacheGet = 0 /\ rec.nEmbed = 0 /\ rec.nSearch = 0
  /\ rec.tracked = <<>> /\ rec.statsWrite = Absent

\* C39: a request publicApiKeyAuth answers with 401 or 403 stops there: the step
\* that answers it changes no store, its request is not in the limiter's history and
\* never waits for the rate-limit store; a request rateLimiter answers with 429 stops
\* there: no embedding call, no index query, and the step that answers it changes
\* no cache entry, no stats record, no metrics record and dispatches no write
C39_RefusedStopsThere ==
  /\ [](\A r \in Slots :
          /\ AuthRefused(req[r]) => StoppedAtAuth(req[r])
          /\ LimiterRefused(req[r]) => StoppedAtLimiter(req[r]))
  /\ [][\A r \in Slots :
          /\ (req'[r] # req[r] /\ AuthRefused(req'[r]))
             => /\ rlKV' = rlKV /\ admitLog' = admitLog
                /\ UNCHANGED <<cacheKV, statsKV, dailyKV, recentKV, tasks, embedLog>>
          /\ (req'[r] # req[r] /\ LimiterRefused(req'[r]))
             => /\ rlKV' = rlKV
                /\ UNCHANGED <<cacheKV, statsKV, dailyKV, recentKV, tasks, embedLog>>]_vars

\* after one admitted request a request with a key that is not on the list was
\* answered 403: the client's window still counts one request
C39_Witness ==
  /\ started = 2 /\ Done(1) /\ req[1].resp.status = 403
  /\ Len(admitLog) = 1 /\ admitLog[1].outcome = "admitted"
  /\ rlKV["unknown"].v.count = 1

\* a request with a good key was answered 429 while the first request's cache entry
\* and metrics are stored
C39_WitnessLimited ==
  /\ started = 2 /\ Done(1) /\ req[1].resp.status = 429
  /\ Len(embedLog) = 1 /\ cacheKV # EmptyKV /\ dailyKV # EmptyKV

============================================================================
